---- MODULE Spec2Model ----
(***************************************************************************)
(* The local data layer of the card collection app                         *)
(* (src/mobile/src/services/database.ts, second generation of the file,    *)
(* lines 370-1628): two SQLite stores (Encyclopedia, Collection), the      *)
(* versioned reseed of the Encyclopedia, the quantity mutation and the     *)
(* cached, single-flight completion statistics.                            *)
(*                                                                         *)
(* JavaScript runs one task at a time; tasks interleave only at an await.  *)
(* Every action below is the code between two awaits of one call.          *)
(***************************************************************************)
EXTENDS Integers, Sequences, FiniteSets, TLC

VARIABLES
    encyclopediaDb,         \* module-level handle: "null" or "open"
    collectionDb,           \* module-level handle: "null" or "open"
    initializationPromise,  \* "null", or the state of the promise it holds
    isInitialized,          \* BOOLEAN
    initStep,               \* position of the one running open sequence
    initWait,               \* callers of initializeDatabases awaiting the promise
    initRet,                \* what each initializeDatabases caller last observed
    enc,                    \* content of encyclopedia.db (tables as sets of rows)
    txn,                    \* open transaction on encyclopedia.db: <<>> or <<snapshot>>
    coll,                   \* content of collection.db: variant_id -> quantity
    cache,                  \* StatsCache.cache: setId -> entry
    statsLocks,             \* statsLocks: setId -> task owning the in-flight promise
    now,                    \* Date.now()
    pc,                     \* per task: where its current call is suspended
    arg,                    \* per task: arguments of its current call
    ret,                    \* per task: outcome of its last completed call
    calc,                   \* per task: locals of its calculateSetCompletionStats
    seed,                   \* locals of the running seedEncyclopedia call
    seedRet,                \* outcome of the last completed seedEncyclopedia call
    dataset,                \* the bundled dataset handed to seedEncyclopedia
    hist,                   \* history (not program state): counters and snapshots
    calls                   \* history: number of calls started so far

initVars  == <<initializationPromise, isInitialized, initStep, initWait, initRet>>
dbVars    == <<encyclopediaDb, collectionDb>>
storeVars == <<enc, txn, coll>>
statsVars == <<cache, statsLocks>>
taskVars  == <<pc, arg, ret, calc>>
seedVars  == <<seed, seedRet, dataset>>
vars == <<encyclopediaDb, collectionDb, initializationPromise, isInitialized,
          initStep, initWait, initRet, enc, txn, coll, cache, statsLocks, now,
          pc, arg, ret, calc, seed, seedRet, dataset, hist, calls>>

----------------------------------------------------------------------------
(* Bounds of the model.                                                    *)

MaxCalls == 4      \* calls started in one behaviour
MaxQty   == 1      \* largest quantity a caller passes
MaxTicks == 2      \* clock advances in one behaviour

(* Program constants.                                                      *)

DB_VERSION == 29
TTL == 30000

Tasks == {"t1", "t2"}
SetIds == {"s1", "s2"}
NULL == "NULL"

EmptyMap == [x \in {} |-> 0]
MapDelete(m, k) == [x \in DOMAIN m \ {k} |-> m[x]]
MapSet(m, k, v) == [x \in DOMAIN m \cup {k} |-> IF x = k THEN v ELSE m[x]]
Rows(s) == {s[i] : i \in 1..Len(s)}

----------------------------------------------------------------------------
(* The bundled dataset (src/mobile/src/data/seedData.ts builds it from the *)
(* per-release files, which are data): a small catalogue with a card in    *)
(* two sets, a card with two variants and every rarity bucket.             *)

R(a, b) == <<a, b>>
NoRarity == <<>>    \* a NULL rarity column (the insert stores `rarity || null`)

TargetSets == << [id |-> "s1", name |-> "Premiere"],
                 [id |-> "s2", name |-> "Hoth"] >>
TargetCards == << [id |-> "c1", name |-> "Luke"],
                  [id |-> "c2", name |-> "Han"],
                  [id |-> "c3", name |-> "Leia"] >>
TargetSetCards ==
    << [set_id |-> "s1", card_id |-> "c1", card_number |-> <<"1">>, rarity |-> R("C", "1")],
       [set_id |-> "s1", card_id |-> "c2", card_number |-> <<"2">>, rarity |-> R("u", "2")],
       [set_id |-> "s2", card_id |-> "c2", card_number |-> <<"1", "0">>, rarity |-> R("R", "1")],
       [set_id |-> "s2", card_id |-> "c3", card_number |-> <<"P", "1">>, rarity |-> NoRarity] >>
TargetVariants ==
    << [id |-> "v1", card_id |-> "c1", pricing_id |-> NULL],
       [id |-> "v2", card_id |-> "c2", pricing_id |-> NULL],
       [id |-> "v3", card_id |-> "c2", pricing_id |-> NULL],
       [id |-> "v5", card_id |-> "c3", pricing_id |-> NULL] >>
TargetAppearances ==
    << [set_id |-> "s1", variant_id |-> "v1", card_number |-> <<"1">>, rarity |-> R("C", "1")],
       [set_id |-> "s1", variant_id |-> "v2", card_number |-> <<"2">>, rarity |-> R("u", "2")],
       [set_id |-> "s2", variant_id |-> "v3", card_number |-> <<"1", "0">>, rarity |-> R("R", "1")],
       [set_id |-> "s2", variant_id |-> "v5", card_number |-> <<"P", "1">>, rarity |-> NoRarity] >>

TargetDataset ==
    [sets |-> TargetSets, cards |-> TargetCards, setCards |-> TargetSetCards,
     variants |-> TargetVariants, appearances |-> TargetAppearances,
     pricing |-> << [pc_id |-> "p1"] >>,
     mappings |-> {[variant_id |-> "v1", pc_id |-> "p1"]}]

----------------------------------------------------------------------------
(* Storage.                                                                *)

\* db_version row of _metadata: absent, or the stored value
HasVersion(E) == "db_version" \in DOMAIN E.meta
StoredVersion(E) == E.meta["db_version"]

\* INSERT OR REPLACE of a batch, row by row: a row with the same key is
\* replaced, so of several rows with one key the last one stays
UpsertAll(table, rows, Key(_)) ==
    {r \in table : \A i \in 1..Len(rows) : Key(rows[i]) # Key(r)}
    \cup {rows[i] : i \in {k \in 1..Len(rows) :
                             \A j \in (k + 1)..Len(rows) : Key(rows[j]) # Key(rows[k])}}

\* plain INSERT of a batch: fails when a key is already present or repeated
HasConflict(table, rows, Key(_)) ==
    \/ \E i \in 1..Len(rows) : \E r \in table : Key(r) = Key(rows[i])
    \/ \E i, j \in 1..Len(rows) : i # j /\ Key(rows[i]) = Key(rows[j])

IdKey(r) == r.id
SetCardKey(r) == <<r.set_id, r.card_id>>
AppearanceKey(r) == <<r.set_id, r.variant_id>>
PcIdKey(r) == r.pc_id

\* the insert steps of seedEncyclopedia, in order; E is the content of the
\* store, D the dataset
insertSets(E, D) == [E EXCEPT !.sets = @ \cup Rows(D.sets)]
insertCards(E, D) == [E EXCEPT !.cards = UpsertAll(@, D.cards, IdKey)]
insertSetCards(E, D) == [E EXCEPT !.set_cards = UpsertAll(@, D.setCards, SetCardKey)]
insertVariants(E, D) == [E EXCEPT !.variants = UpsertAll(@, D.variants, IdKey)]
insertAppearances(E, D) ==
    [E EXCEPT !.appearances = UpsertAll(@, D.appearances, AppearanceKey)]
insertPricing(E, D) == [E EXCEPT !.pricing = UpsertAll(@, D.pricing, PcIdKey)]

\* UPDATE variants SET pricing_id = CASE id ... END WHERE id IN (...): the
\* mappings whose pc_id has a card_pricing row. (The model names a pricing
\* row by its pc_id; the code resolves pc_id to the autoincrement id.)
linkPricing(E, D) ==
    LET linked == {m \in D.mappings : \E p \in E.pricing : p.pc_id = m.pc_id}
    IN  [E EXCEPT !.variants =
            {IF \E m \in linked : m.variant_id = v.id
                THEN [v EXCEPT !.pricing_id =
                         (CHOOSE m \in linked : m.variant_id = v.id).pc_id]
                ELSE v : v \in @}]

\* INSERT OR REPLACE INTO _metadata ('db_version', DB_VERSION)
writeVersion(E, version) == [E EXCEPT !.meta = MapSet(@, "db_version", version)]

\* the tables of ENCYCLOPEDIA_SCHEMA, all empty; missing holds the names of
\* the tables that do not exist (dropped, or not created yet)
EmptyStore == [sets |-> {}, cards |-> {}, set_cards |-> {}, variants |-> {},
               appearances |-> {}, pricing |-> {}, meta |-> EmptyMap,
               missing |-> {}]

AllTables == {"_metadata", "sets", "cards", "set_cards", "variants",
              "appearances", "pricing"}

\* encyclopedia.db before ENCYCLOPEDIA_SCHEMA has ever run
NoStore == [EmptyStore EXCEPT !.missing = AllTables]

\* execAsync(ENCYCLOPEDIA_SCHEMA): CREATE TABLE IF NOT EXISTS for each table
createSchema(E) == [E EXCEPT !.missing = {}]

\* the rows a complete run of the insert steps over empty tables leaves
Catalogue(D) ==
    linkPricing(insertPricing(insertAppearances(insertVariants(insertSetCards(
        insertCards(insertSets(EmptyStore, D), D), D), D), D), D), D)

\* equality of the catalogue tables of two store contents
SameTables(E, F) == [E EXCEPT !.meta = EmptyMap] = [F EXCEPT !.meta = EmptyMap]

----------------------------------------------------------------------------
(* Completion statistics.                                                  *)

Upper(ch) ==
    CASE ch = "c" -> "C" [] ch = "u" -> "U" [] ch = "r" -> "R" [] OTHER -> ch

normalizeRarity(rarity) ==
    IF rarity = NoRarity THEN "other"
    ELSE IF Upper(rarity[1]) = "C" THEN "common"
    ELSE IF Upper(rarity[1]) = "U" THEN "uncommon"
    ELSE IF Upper(rarity[1]) = "R" THEN "rare"
    ELSE "other"

\* Query 1: set_cards JOIN variants ON card_id WHERE set_id = ?
cardVariantsQuery(E, setId) ==
    {[card_id |-> sc.card_id, rarity |-> sc.rarity, variant_id |-> v.id] :
        <<sc, v>> \in {p \in E.set_cards \X E.variants :
                          p[1].set_id = setId /\ p[2].card_id = p[1].card_id}}

\* Query 2: collection rows among variantIds with quantity > 0
ownedQuery(C, variantIds) ==
    {v \in variantIds : v \in DOMAIN C /\ C[v] > 0}

\* the in-memory fold of calculateSetCompletionStats
foldStats(cardVariants, ownedVariants) ==
    LET uniqueCards == {cv.card_id : cv \in cardVariants}
        rarityOf(c) == (CHOOSE cv \in cardVariants : cv.card_id = c).rarity
        isOwned(c) == \E cv \in cardVariants :
                          cv.card_id = c /\ cv.variant_id \in ownedVariants
        bucket(b) ==
            [owned |-> Cardinality({c \in uniqueCards :
                           normalizeRarity(rarityOf(c)) = b /\ isOwned(c)}),
             total |-> Cardinality({c \in uniqueCards :
                           normalizeRarity(rarityOf(c)) = b})]
    IN  [total |-> [owned |-> Cardinality({c \in uniqueCards : isOwned(c)}),
                    total |-> Cardinality(uniqueCards)],
         common |-> bucket("common"), uncommon |-> bucket("uncommon"),
         rare |-> bucket("rare"), other |-> bucket("other")]

\* StatsCache.get: the entry when it is younger than TTL
\* (mutation: an entry of age TTL is still served)
cacheFreshInclusive(setId) ==
    setId \in DOMAIN cache /\ now - cache[setId].timestamp <= TTL

cacheFresh(setId) ==
    setId \in DOMAIN cache /\ now - cache[setId].timestamp < TTL

\* (the field swept of a calculation is history: the lookup that started it
\* removed a stale entry)
NoCalc == [setId |-> NULL, cardVariants |-> {}, owned |-> {}, missed |-> {},
           swept |-> FALSE]
NoArg == [setId |-> NULL, variantId |-> NULL, quantity |-> 0, cardId |-> NULL,
          promise |-> NULL, query |-> <<>>, oldQuantity |-> 0]
NoRet == [op |-> "none", status |-> "none", setId |-> NULL, data |-> <<>>,
          missed |-> {}, source |-> "none"]

\* (the field missed of a result, of a cache entry and of a calculation is
\* history: the callers whose Collection write came after the Collection
\* was read for it)
StatsRet(setId, data, missed, source) ==
    [op |-> "stats", status |-> "ok", setId |-> setId, data |-> <<data>>,
     missed |-> missed, source |-> source]
ErrorRet(op, setId) ==
    [op |-> op, status |-> "error", setId |-> setId, data |-> <<>>,
     missed |-> {}, source |-> "none"]

\* (mutation: the lock is not consulted)
existingPromiseNever(setId) == <<>>

\* const existingPromise = statsLocks.get(setId)
existingPromise(setId) ==
    IF setId \in DOMAIN statsLocks THEN <<statsLocks[setId]>> ELSE <<>>

\* (mutation: the lock is not removed)
finallyKeeps(locks, setId) == locks

\* finally { statsLocks.delete(setId) }
finallyDelete(locks, setId) == MapDelete(locks, setId)

\* callers that returned the promise of owner o and still await it
Joiners(o) == {j \in Tasks : pc[j] = "join" /\ arg[j].promise = o}

\* getSetCompletionStats up to its first await: cache lookup (a stale entry
\* is removed), then the in-flight promise, then a new calculation, whose
\* first query is issued before the lock is stored.
GetStatsCall(t, setId) ==
    /\ pc[t] = "idle"
    /\ calls < MaxCalls
    /\ calls' = calls + 1
    /\ LET swept == IF setId \in DOMAIN cache /\ ~cacheFresh(setId)
                    THEN MapDelete(cache, setId) ELSE cache
       IN  IF cacheFresh(setId)
           THEN /\ ret' = [ret EXCEPT ![t] = StatsRet(setId, cache[setId].data,
                                                      cache[setId].missed, "cache")]
                /\ UNCHANGED <<cache, statsLocks, pc, arg, calc>>
           ELSE IF existingPromise(setId) # <<>>
           THEN /\ pc' = [pc EXCEPT ![t] = "join"]
                /\ arg' = [arg EXCEPT ![t] = [NoArg EXCEPT !.setId = setId,
                                                 !.promise = existingPromise(setId)[1]]]
                /\ ret' = [ret EXCEPT ![t] = NoRet]
                /\ cache' = swept
                /\ UNCHANGED <<statsLocks, calc>>
           ELSE IF encyclopediaDb = "null" \/ collectionDb = "null"
           THEN \* calculateSetCompletionStats rejects at once; the lock is
                \* stored and removed again by the finally block
                /\ ret' = [ret EXCEPT ![t] = ErrorRet("stats", setId)]
                /\ cache' = swept
                /\ UNCHANGED <<statsLocks, pc, arg, calc>>
           ELSE /\ pc' = [pc EXCEPT ![t] = "calc_q1"]
                /\ arg' = [arg EXCEPT ![t] = [NoArg EXCEPT !.setId = setId]]
                /\ calc' = [calc EXCEPT ![t] =
                               [NoCalc EXCEPT !.setId = setId,
                                              !.swept = setId \in DOMAIN cache]]
                /\ statsLocks' = MapSet(statsLocks, setId, t)
                /\ ret' = [ret EXCEPT ![t] = NoRet]
                /\ cache' = swept
    /\ UNCHANGED <<dbVars, initVars, storeVars, seedVars, now, hist>>

\* the promise of owner t fulfils: the owner stores the result in the cache
\* and removes the lock; the callers that joined receive the same value.
\* (The reactions of one promise run in one microtask drain: no other task
\* runs between them.)
Settle(t, stats, missed) ==
    /\ cache' = MapSet(cache, calc[t].setId,
                       [data |-> stats, timestamp |-> now, missed |-> missed])
    /\ statsLocks' = finallyDelete(statsLocks, calc[t].setId)
    /\ ret' = [x \in Tasks |->
                 IF x = t THEN StatsRet(calc[t].setId, stats, missed, "calc")
                 ELSE IF x \in Joiners(t) THEN StatsRet(calc[t].setId, stats, missed, "join")
                 ELSE ret[x]]
    /\ pc' = [x \in Tasks |-> IF x = t \/ x \in Joiners(t) THEN "idle" ELSE pc[x]]
    /\ arg' = [x \in Tasks |-> IF x = t \/ x \in Joiners(t) THEN NoArg ELSE arg[x]]
    /\ calc' = [calc EXCEPT ![t] = NoCalc]

\* Query 1 returns; with no variant the result is folded at once, otherwise
\* query 2 is issued
CalcQuery1(t) ==
    /\ pc[t] = "calc_q1"
    /\ {"set_cards", "variants"} \cap enc.missing = {}
    /\ LET cardVariants == cardVariantsQuery(enc, calc[t].setId)
       IN  IF {cv.variant_id : cv \in cardVariants} = {}
           THEN Settle(t, foldStats(cardVariants, {}), {})
           ELSE /\ pc' = [pc EXCEPT ![t] = "calc_q2"]
                /\ calc' = [calc EXCEPT ![t].cardVariants = cardVariants]
                /\ UNCHANGED <<cache, statsLocks, ret, arg>>
    /\ UNCHANGED <<dbVars, initVars, storeVars, seedVars, now, hist, calls>>

\* Query 2 runs in the storage layer: the rows are read here, and handed to
\* the suspended call only when it is resumed (CalcResume)
CalcQuery2(t) ==
    /\ pc[t] = "calc_q2"
    /\ pc' = [pc EXCEPT ![t] = "calc_fold"]
    /\ calc' = [calc EXCEPT
                  ![t].owned = ownedQuery(coll, {cv.variant_id : cv \in calc[t].cardVariants}),
                  ![t].missed = {}]
    /\ UNCHANGED <<dbVars, initVars, storeVars, statsVars, seedVars, now, hist,
                   calls, arg, ret>>

\* the call resumes with the rows of query 2 and folds them
CalcResume(t) ==
    /\ pc[t] = "calc_fold"
    /\ Settle(t, foldStats(calc[t].cardVariants, calc[t].owned), calc[t].missed)
    /\ UNCHANGED <<dbVars, initVars, storeVars, seedVars, now, hist, calls>>

\* a query of the calculation throws: the promise rejects, the finally block
\* removes the lock, nothing is cached, owner and joiners get the error
CalcFail(t) ==
    /\ pc[t] \in {"calc_q1", "calc_q2"}
    /\ statsLocks' = finallyDelete(statsLocks, calc[t].setId)
    /\ ret' = [x \in Tasks |->
                 IF x = t THEN ErrorRet("stats", calc[t].setId)
                 ELSE IF x \in Joiners(t)
                 THEN [ErrorRet("stats", calc[t].setId) EXCEPT !.source = "join"]
                 ELSE ret[x]]
    /\ pc' = [x \in Tasks |-> IF x = t \/ x \in Joiners(t) THEN "idle" ELSE pc[x]]
    /\ arg' = [x \in Tasks |-> IF x = t \/ x \in Joiners(t) THEN NoArg ELSE arg[x]]
    /\ calc' = [calc EXCEPT ![t] = NoCalc]
    /\ UNCHANGED <<dbVars, initVars, storeVars, seedVars, now, hist, calls, cache>>

----------------------------------------------------------------------------
(* updateVariantQuantity.                                                  *)

VariantArgs == {"v1", "v2", "v9"}        \* v9 is in no catalogue
Quantities == (0 - 1)..MaxQty

UpdateRet(status) ==
    [op |-> "update", status |-> status, setId |-> NULL, data |-> <<>>,
     missed |-> {}, source |-> "none"]

\* the calculation of setId reads the quantity of variantId (history only)
ReadsVariant(setId, variantId) ==
    \E cv \in cardVariantsQuery(enc, setId) : cv.variant_id = variantId

\* the DELETE (quantity 0) or the upsert of the collection row
writeQuantity(C, variantId, quantity) ==
    IF quantity = 0 THEN MapDelete(C, variantId) ELSE MapSet(C, variantId, quantity)

\* SELECT set_id FROM set_cards WHERE card_id = ?
setsOfCard(E, cardId) == {sc.set_id : sc \in {r \in E.set_cards : r.card_id = cardId}}

\* (mutation: no entry is invalidated)
invalidateNone(c, setIds) == c

\* statsCache.invalidate for each set of the list
invalidateEach(c, setIds) == [x \in DOMAIN c \ setIds |-> c[x]]

\* entry: the two handle guards, then the write is issued
UpdateEntry(t, variantId, quantity, oldQuantity) ==
    /\ pc[t] = "idle"
    /\ calls < MaxCalls
    /\ calls' = calls + 1
    /\ IF encyclopediaDb = "null" \/ collectionDb = "null"
       THEN /\ ret' = [ret EXCEPT ![t] = UpdateRet("error")]
            /\ UNCHANGED <<pc, arg>>
       ELSE /\ pc' = [pc EXCEPT ![t] = "upd_write"]
            /\ arg' = [arg EXCEPT ![t] = [NoArg EXCEPT !.variantId = variantId,
                                                      !.quantity = quantity,
                                                      !.oldQuantity = oldQuantity]]
            /\ ret' = [ret EXCEPT ![t] = NoRet]
    /\ hist' = [hist EXCEPT !.dropped = {}]
    /\ UNCHANGED <<dbVars, initVars, storeVars, statsVars, seedVars, now, calc>>

\* a call of updateVariantQuantity by a caller that keeps no old quantity
UpdateCall(t, variantId, quantity) == UpdateEntry(t, variantId, quantity, 0)

\* the write returns; the variant lookup is issued
UpdateWrite(t) ==
    /\ pc[t] = "upd_write"
    /\ coll' = writeQuantity(coll, arg[t].variantId, arg[t].quantity)
    /\ pc' = [pc EXCEPT ![t] = "upd_variant"]
    \* history: the reads of the Collection made before this write
    /\ calc' = [x \in Tasks |->
                  IF pc[x] = "calc_fold" /\ ReadsVariant(calc[x].setId, arg[t].variantId)
                  THEN [calc[x] EXCEPT !.missed = @ \cup {t}] ELSE calc[x]]
    /\ cache' = [s \in DOMAIN cache |->
                   IF ReadsVariant(s, arg[t].variantId)
                   THEN [cache[s] EXCEPT !.missed = @ \cup {t}] ELSE cache[s]]
    /\ UNCHANGED <<dbVars, initVars, enc, txn, statsLocks, seedVars, now, calls,
                   arg, ret, hist>>

\* the variant lookup returns: without a row the call returns, otherwise the
\* lookup of the sets of its card is issued
UpdateVariant(t) ==
    /\ pc[t] = "upd_variant"
    /\ "variants" \notin enc.missing
    /\ LET found == {v \in enc.variants : v.id = arg[t].variantId}
       IN  IF found = {}
           THEN /\ pc' = [pc EXCEPT ![t] = "idle"]
                /\ ret' = [ret EXCEPT ![t] = UpdateRet("ok")]
                /\ arg' = [arg EXCEPT ![t] = NoArg]
           ELSE /\ pc' = [pc EXCEPT ![t] = "upd_sets"]
                /\ arg' = [arg EXCEPT ![t].cardId = (CHOOSE v \in found : TRUE).card_id]
                /\ UNCHANGED ret
    /\ UNCHANGED <<hist, dbVars, initVars, storeVars, statsVars, seedVars, now, calls, calc>>

\* the set lookup returns: each set of the card is invalidated and the call
\* returns
UpdateSets(t) ==
    /\ pc[t] = "upd_sets"
    /\ "set_cards" \notin enc.missing
    /\ cache' = invalidateEach(cache, setsOfCard(enc, arg[t].cardId))
    /\ pc' = [pc EXCEPT ![t] = "idle"]
    /\ ret' = [ret EXCEPT ![t] = UpdateRet("ok")]
    /\ arg' = [arg EXCEPT ![t] = NoArg]
    \* history: the live entries this call removed
    /\ hist' = [hist EXCEPT !.dropped = DOMAIN cache \cap setsOfCard(enc, arg[t].cardId)]
    /\ UNCHANGED <<dbVars, initVars, storeVars, statsLocks, seedVars, now, calls, calc>>

\* the awaited storage call throws: the catch block rethrows
UpdateFail(t) ==
    /\ pc[t] \in {"upd_write", "upd_variant", "upd_sets"}
    /\ pc' = [pc EXCEPT ![t] = "idle"]
    /\ ret' = [ret EXCEPT ![t] = UpdateRet("error")]
    /\ arg' = [arg EXCEPT ![t] = NoArg]
    /\ UNCHANGED <<dbVars, initVars, storeVars, statsVars, seedVars, now, hist,
                   calls, calc>>

\* time passes
Tick ==
    /\ hist.ticks < MaxTicks
    /\ \E d \in {1, TTL - 1} : now' = now + d
    /\ hist' = [hist EXCEPT !.ticks = @ + 1]
    /\ UNCHANGED <<dbVars, initVars, storeVars, statsVars, taskVars, seedVars, calls>>

----------------------------------------------------------------------------
(* initializeDatabases and closeDatabases.                                 *)

InitRunning == initStep \notin {"idle", "done"}

\* (mutation: the catch block does not clear the promise)
latchKept == "rejected"

\* what the catch block of the open sequence leaves in initializationPromise
latchAfterFailure == "null"

\* (mutation: the promise guard is missing)
initializationNeverPending == FALSE

\* if (initializationPromise)
initializationPending == initializationPromise # "null"

\* the open sequence settles: every caller holding its promise resumes
InitSettle(outcome) ==
    /\ initRet' = [t \in Tasks |-> IF t \in initWait THEN outcome ELSE initRet[t]]
    /\ pc' = [t \in Tasks |-> IF t \in initWait THEN "idle" ELSE pc[t]]
    /\ initWait' = {}

\* initializeDatabases up to its return: the isInitialized guard, the
\* promise guard, or a new open sequence whose first call (opening
\* encyclopedia.db) is issued before the promise is stored
InitCall(t) ==
    /\ pc[t] = "idle"
    /\ calls < MaxCalls
    /\ calls' = calls + 1
    /\ IF isInitialized
       THEN /\ initRet' = [initRet EXCEPT ![t] = "ok"]
            /\ hist' = [hist EXCEPT !.initCalls = @ + 1]
            /\ UNCHANGED <<initializationPromise, initStep, initWait, pc>>
       ELSE IF initializationPending
       THEN /\ hist' = [hist EXCEPT !.initCalls = @ + 1]
            /\ IF initializationPromise = "pending"
               THEN /\ initWait' = initWait \cup {t}
                    /\ pc' = [pc EXCEPT ![t] = "init_wait"]
                    /\ initRet' = [initRet EXCEPT ![t] = "none"]
               ELSE /\ initRet' = [initRet EXCEPT ![t] =
                          IF initializationPromise = "fulfilled" THEN "ok" ELSE "error"]
                    /\ UNCHANGED <<initWait, pc>>
            /\ UNCHANGED <<initializationPromise, initStep>>
       ELSE /\ initStep' = "open_enc"
            /\ initializationPromise' = "pending"
            /\ initWait' = initWait \cup {t}
            /\ pc' = [pc EXCEPT ![t] = "init_wait"]
            /\ initRet' = [initRet EXCEPT ![t] = "none"]
            /\ hist' = [hist EXCEPT !.initCalls = @ + 1, !.opens = @ + 1]
    /\ UNCHANGED <<dbVars, isInitialized, storeVars, statsVars, seedVars, now,
                   arg, ret, calc>>

\* encyclopedia.db is open: the handle is stored, the schema is issued
InitOpenedEnc ==
    /\ initStep = "open_enc"
    /\ encyclopediaDb' = "open"
    /\ initStep' = "schema_enc"
    /\ UNCHANGED <<collectionDb, initializationPromise, isInitialized, initWait,
                   initRet, storeVars, statsVars, taskVars, seedVars, now, hist, calls>>

\* the schema of the Encyclopedia is created: journal_mode is issued
InitSchemaEnc ==
    /\ initStep = "schema_enc"
    /\ encyclopediaDb = "open"
    /\ initStep' = "wal_enc"
    /\ enc' = createSchema(enc)
    /\ UNCHANGED <<dbVars, initializationPromise, isInitialized, initWait,
                   initRet, txn, coll, statsVars, taskVars, seedVars, now, hist, calls>>

\* collection.db is open: the handle is stored, its schema is issued
InitOpenedColl ==
    /\ initStep = "open_coll"
    /\ collectionDb' = "open"
    /\ initStep' = "schema_coll"
    /\ UNCHANGED <<encyclopediaDb, initializationPromise, isInitialized, initWait,
                   initRet, storeVars, statsVars, taskVars, seedVars, now, hist, calls>>

\* a step of the sequence that calls a method of collectionDb next
InitCollStep(from, to) ==
    /\ initStep = from
    /\ collectionDb = "open"
    /\ initStep' = to
    /\ UNCHANGED <<dbVars, initializationPromise, isInitialized, initWait,
                   initRet, storeVars, statsVars, taskVars, seedVars, now, hist, calls>>

\* journal_mode of the Encyclopedia is set: opening collection.db is issued
InitWalEnc ==
    /\ initStep = "wal_enc"
    /\ initStep' = "open_coll"
    /\ UNCHANGED <<dbVars, initializationPromise, isInitialized, initWait,
                   initRet, storeVars, statsVars, taskVars, seedVars, now, hist, calls>>

\* the schema of the Collection is created: journal_mode is issued
InitSchemaColl == InitCollStep("schema_coll", "wal_coll")

\* journal_mode of the Collection is set: the backup check is issued
InitWalColl ==
    /\ initStep = "wal_coll"
    /\ initStep' = "backup_info"
    /\ UNCHANGED <<dbVars, initializationPromise, isInitialized, initWait,
                   initRet, storeVars, statsVars, taskVars, seedVars, now, hist, calls>>

\* the backup check returns or throws (its own catch swallows the error):
\* isInitialized is set and the promise fulfils
InitDone ==
    /\ initStep = "backup_info"
    /\ isInitialized' = TRUE
    /\ initStep' = "done"
    /\ initializationPromise' = "fulfilled"
    /\ InitSettle("ok")
    /\ UNCHANGED <<dbVars, storeVars, statsVars, seedVars, now, hist, calls,
                   arg, ret, calc>>

\* an awaited call of the sequence throws, or the handle it is about to use
\* has been set to null by closeDatabases: the catch block resets the state
\* and the promise rejects
InitFail ==
    /\ initStep \in {"open_enc", "schema_enc", "wal_enc", "open_coll",
                     "schema_coll", "wal_coll"}
    /\ initializationPromise' = latchAfterFailure
    /\ isInitialized' = FALSE
    /\ encyclopediaDb' = "null"
    /\ collectionDb' = "null"
    /\ initStep' = "idle"
    /\ InitSettle("error")
    /\ hist' = [hist EXCEPT !.initFails = @ + 1]
    /\ UNCHANGED <<storeVars, statsVars, seedVars, now, calls, arg, ret, calc>>

CloseRet(status) ==
    [op |-> "close", status |-> status, setId |-> NULL, data |-> <<>>,
     missed |-> {}, source |-> "none"]

\* the tail of closeDatabases once no handle is left to close
CloseFinish(t) ==
    /\ cache' = EmptyMap
    /\ pc' = [pc EXCEPT ![t] = "idle"]
    /\ ret' = [ret EXCEPT ![t] = CloseRet("ok")]

\* closeDatabases up to its first await
CloseCall(t) ==
    /\ pc[t] = "idle"
    /\ calls < MaxCalls
    /\ calls' = calls + 1
    /\ IF encyclopediaDb # "null"
       THEN /\ pc' = [pc EXCEPT ![t] = "close_enc"]
            /\ ret' = [ret EXCEPT ![t] = NoRet]
            /\ UNCHANGED cache
       ELSE IF collectionDb # "null"
       THEN /\ pc' = [pc EXCEPT ![t] = "close_coll"]
            /\ ret' = [ret EXCEPT ![t] = NoRet]
            /\ UNCHANGED cache
       ELSE CloseFinish(t)
    /\ UNCHANGED <<dbVars, initVars, storeVars, statsLocks, seedVars, now, hist,
                   arg, calc>>

\* encyclopediaDb.closeAsync() returns: the handle is set to null
CloseEnc(t) ==
    /\ pc[t] = "close_enc"
    /\ encyclopediaDb' = "null"
    /\ IF collectionDb # "null"
       THEN /\ pc' = [pc EXCEPT ![t] = "close_coll"]
            /\ UNCHANGED <<cache, ret>>
       ELSE CloseFinish(t)
    /\ UNCHANGED <<collectionDb, initVars, storeVars, statsLocks, seedVars, now,
                   hist, calls, arg, calc>>

\* collectionDb.closeAsync() returns: the handle is set to null, the cache
\* is cleared
CloseColl(t) ==
    /\ pc[t] = "close_coll"
    /\ collectionDb' = "null"
    /\ CloseFinish(t)
    /\ UNCHANGED <<encyclopediaDb, initVars, storeVars, statsLocks, seedVars, now,
                   hist, calls, arg, calc>>

\* closeAsync throws: closeDatabases rethrows
CloseFail(t) ==
    /\ pc[t] \in {"close_enc", "close_coll"}
    /\ pc' = [pc EXCEPT ![t] = "idle"]
    /\ ret' = [ret EXCEPT ![t] = CloseRet("error")]
    /\ UNCHANGED <<dbVars, initVars, storeVars, statsVars, seedVars, now, hist,
                   calls, arg, calc>>

----------------------------------------------------------------------------
(* checkDatabaseStatus and seedEncyclopedia.                               *)

\* (the field retry of a call and the field at of an outcome are history:
\* the statement at which the call ended, and whether the call before this
\* one threw before its marker write completed)
NoSeed == [status |-> "none", validVariantIds |-> {}, orphans |-> {},
           retry |-> FALSE]
NoSeedRet == [status |-> "none", at |-> "none"]

\* the statements of seedEncyclopedia up to and including the marker write
BeforeMarker == {"seed_drop", "seed_delete", "seed_schema", "seed_begin",
                 "seed_rollback", "seed_marker"}

\* checkDatabaseStatus: the catch block turns a failed read of the version
\* into 'first-time'
checkDatabaseStatus(E, readFails) ==
    IF readFails THEN "first-time"
    ELSE IF ~HasVersion(E) THEN "first-time"
    ELSE IF StoredVersion(E) < DB_VERSION THEN "migration"
    ELSE "up-to-date"

\* the statements of the two multi-statement execAsync calls, in order
DropOrder == <<"pricing", "appearances", "variants", "set_cards", "cards", "sets">>
DeleteOrder == <<"variants", "set_cards", "cards", "sets">>

clearTable(E, name) ==
    CASE name = "sets" -> [E EXCEPT !.sets = {}]
      [] name = "cards" -> [E EXCEPT !.cards = {}]
      [] name = "set_cards" -> [E EXCEPT !.set_cards = {}]
      [] name = "variants" -> [E EXCEPT !.variants = {}]
      [] name = "appearances" -> [E EXCEPT !.appearances = {}]
      [] name = "pricing" -> [E EXCEPT !.pricing = {}]

RECURSIVE clearFirst(_, _, _)
clearFirst(E, order, k) ==
    IF k = 0 THEN E ELSE clearTable(clearFirst(E, order, k - 1), order[k])

\* the first k statements of DROP TABLE IF EXISTS ...; (each statement
\* commits on its own: the call is made before BEGIN)
dropFirst(E, k) ==
    [clearFirst(E, DropOrder, k) EXCEPT !.missing = @ \cup {DropOrder[i] : i \in 1..k}]

\* the first k statements of DELETE FROM variants; DELETE FROM set_cards;
\* DELETE FROM cards; DELETE FROM sets; (likewise outside the transaction)
deleteFirst(E, k) == clearFirst(E, DeleteOrder, k)

\* DELETE FROM a table that does not exist fails
canDeleteFirst(E, k) == \A i \in 1..k : DeleteOrder[i] \notin E.missing

\* (mutation: ROLLBACK leaves the rows of the transaction in place)
rollbackKeeps(E, snapshot) == E

\* ROLLBACK: the store is what it was at BEGIN
rollbackTo(E, snapshot) == snapshot

\* (mutation: a variant without a set appearance counts as orphaned)
isOrphanNoAppearance(validVariantIds, variantId) ==
    \A a \in enc.appearances : a.variant_id # variantId

\* (mutation: no Collection row counts as orphaned)
isOrphanNever(validVariantIds, variantId) == FALSE

\* !validVariantIds.has(cv.variant_id)
isOrphan(validVariantIds, variantId) == variantId \notin validVariantIds

\* statsCache.invalidateAll()
invalidateAll(c) == EmptyMap

\* the call returns (status) or throws ("error")
SeedReturn(t, status) ==
    /\ pc' = [pc EXCEPT ![t] = "idle"]
    /\ seedRet' = [seedRet EXCEPT ![t] = [status |-> status, at |-> pc[t]]]
    /\ seed' = [seed EXCEPT ![t] = NoSeed]

\* the tail of a rebuilding call: the cache is cleared, the status returned
SeedFinish(t) ==
    /\ cache' = invalidateAll(cache)
    /\ SeedReturn(t, seed[t].status)

\* seedEncyclopedia up to its first await: the handle guard, then the read
\* of the version by checkDatabaseStatus is issued
SeedCall(t) ==
    /\ pc[t] = "idle"
    /\ calls < MaxCalls
    /\ calls' = calls + 1
    /\ IF encyclopediaDb = "null"
       THEN /\ seedRet' = [seedRet EXCEPT ![t] = [status |-> "error", at |-> "idle"]]
            /\ UNCHANGED <<pc, seed, hist>>
       ELSE /\ pc' = [pc EXCEPT ![t] = "seed_status"]
            /\ seedRet' = [seedRet EXCEPT ![t] = NoSeedRet]
            /\ seed' = [seed EXCEPT ![t] =
                         [NoSeed EXCEPT !.retry = /\ seedRet[t].status = "error"
                                                  /\ seedRet[t].at \in BeforeMarker]]
            /\ hist' = [hist EXCEPT !.atCall = <<enc>>, !.atBegin = <<>>,
                                    !.purged = {}, !.undone = FALSE]
    /\ UNCHANGED <<dbVars, initVars, storeVars, statsVars, now, arg, ret, calc, dataset>>

\* what follows the status: return, or the first statement of the rebuild
SeedAfterStatus(t, status) ==
    IF status = "up-to-date"
    THEN /\ SeedReturn(t, status)
         /\ hist' = [hist EXCEPT !.seedOk = TRUE]
    ELSE /\ pc' = [pc EXCEPT ![t] = IF status = "migration" THEN "seed_drop"
                                                              ELSE "seed_delete"]
         /\ seed' = [seed EXCEPT ![t].status = status]
         /\ UNCHANGED <<seedRet, hist>>

\* the read of the version returns
SeedStatus(t) ==
    /\ pc[t] = "seed_status"
    /\ "_metadata" \notin enc.missing
    /\ encyclopediaDb = "open"
    /\ SeedAfterStatus(t, checkDatabaseStatus(enc, FALSE))
    /\ UNCHANGED <<dbVars, initVars, storeVars, statsVars, now, arg, ret, calc,
                   dataset, calls>>

\* the read of the version throws
SeedStatusFail(t) ==
    /\ pc[t] = "seed_status"
    /\ encyclopediaDb = "open"
    /\ SeedAfterStatus(t, checkDatabaseStatus(enc, TRUE))
    /\ UNCHANGED <<dbVars, initVars, storeVars, statsVars, now, arg, ret, calc,
                   dataset, calls>>

\* migration: the six tables are dropped; the schema is issued
SeedDrop(t) ==
    /\ pc[t] = "seed_drop"
    /\ encyclopediaDb = "open"
    /\ enc' = dropFirst(enc, Len(DropOrder))
    /\ pc' = [pc EXCEPT ![t] = "seed_schema"]
    /\ UNCHANGED <<dbVars, initVars, txn, coll, statsVars, now, arg, ret, calc,
                   seedVars, hist, calls>>

\* one of the DROP statements fails: the ones before it have run
SeedDropFail(t) ==
    /\ pc[t] = "seed_drop"
    /\ \E k \in 0..(Len(DropOrder) - 1) : enc' = dropFirst(enc, k)
    /\ SeedReturn(t, "error")
    /\ UNCHANGED <<dbVars, initVars, txn, coll, statsVars, now, arg, ret, calc,
                   dataset, hist, calls>>

\* migration: the tables are recreated; BEGIN is issued
SeedSchema(t) ==
    /\ pc[t] = "seed_schema"
    /\ encyclopediaDb = "open"
    /\ enc' = createSchema(enc)
    /\ pc' = [pc EXCEPT ![t] = "seed_begin"]
    /\ UNCHANGED <<dbVars, initVars, txn, coll, statsVars, now, arg, ret, calc,
                   seedVars, hist, calls>>

\* first time: the four tables are emptied; BEGIN is issued
SeedDelete(t) ==
    /\ pc[t] = "seed_delete"
    /\ encyclopediaDb = "open"
    /\ canDeleteFirst(enc, Len(DeleteOrder))
    /\ enc' = deleteFirst(enc, Len(DeleteOrder))
    /\ pc' = [pc EXCEPT ![t] = "seed_begin"]
    /\ UNCHANGED <<dbVars, initVars, txn, coll, statsVars, now, arg, ret, calc,
                   seedVars, hist, calls>>

\* one of the DELETE statements fails: the ones before it have run
SeedDeleteFail(t) ==
    /\ pc[t] = "seed_delete"
    /\ \E k \in 0..(Len(DeleteOrder) - 1) :
          /\ canDeleteFirst(enc, k)
          /\ enc' = deleteFirst(enc, k)
    /\ SeedReturn(t, "error")
    /\ UNCHANGED <<dbVars, initVars, txn, coll, statsVars, now, arg, ret, calc,
                   dataset, hist, calls>>

\* BEGIN TRANSACTION returns: the insert of the sets is issued
SeedBegin(t) ==
    /\ pc[t] = "seed_begin"
    /\ encyclopediaDb = "open"
    /\ txn = <<>>
    /\ txn' = <<enc>>
    /\ pc' = [pc EXCEPT ![t] = "seed_sets"]
    /\ hist' = [hist EXCEPT !.atBegin = <<enc>>]
    /\ UNCHANGED <<dbVars, initVars, enc, coll, statsVars, now, arg, ret, calc,
                   seedVars, calls>>

\* a statement outside the inner try block throws (the schema, BEGIN, the
\* write of the marker, a statement of the purge): the call rethrows
SeedFail(t) ==
    /\ pc[t] \in {"seed_schema", "seed_begin", "seed_marker", "seed_valid",
                  "seed_collection", "seed_purge"}
    /\ SeedReturn(t, "error")
    /\ UNCHANGED <<dbVars, initVars, storeVars, statsVars, now, arg, ret, calc,
                   dataset, hist, calls>>

\* the awaits of the inner try block, BEGIN ... COMMIT
InsertSteps == {"seed_sets", "seed_cards", "seed_set_cards", "seed_variants",
                "seed_appearances", "seed_pricing", "seed_map_read",
                "seed_map_update", "seed_commit"}

\* VALUES with no row is a syntax error
emptyBatch(rows) == Len(rows) = 0

\* what is issued after the appearances, and after the pricing rows
afterPricing(D) == IF D.mappings # {} THEN "seed_map_read" ELSE "seed_commit"
afterAppearances(D) == IF Len(D.pricing) > 0 THEN "seed_pricing" ELSE afterPricing(D)

\* a statement of the transaction returns and the next one is issued
SeedInsert(t, from, table, E, to) ==
    /\ pc[t] = from
    /\ encyclopediaDb = "open"
    /\ table \notin enc.missing
    /\ enc' = E
    /\ pc' = [pc EXCEPT ![t] = to]
    /\ UNCHANGED <<dbVars, initVars, txn, coll, statsVars, now, arg, ret, calc,
                   seedVars, hist, calls>>

\* INSERT INTO sets
SeedInsertSets(t) ==
    /\ ~emptyBatch(dataset.sets)
    /\ ~HasConflict(enc.sets, dataset.sets, IdKey)
    /\ SeedInsert(t, "seed_sets", "sets", insertSets(enc, dataset), "seed_cards")

\* INSERT OR REPLACE INTO cards
SeedInsertCards(t) ==
    /\ ~emptyBatch(dataset.cards)
    /\ SeedInsert(t, "seed_cards", "cards", insertCards(enc, dataset), "seed_set_cards")

\* INSERT OR REPLACE INTO set_cards
SeedInsertSetCards(t) ==
    /\ ~emptyBatch(dataset.setCards)
    /\ SeedInsert(t, "seed_set_cards", "set_cards", insertSetCards(enc, dataset),
                  "seed_variants")

\* INSERT OR REPLACE INTO variants
SeedInsertVariants(t) ==
    /\ ~emptyBatch(dataset.variants)
    /\ SeedInsert(t, "seed_variants", "variants", insertVariants(enc, dataset),
                  "seed_appearances")

\* INSERT OR REPLACE INTO variant_set_appearances
SeedInsertAppearances(t) ==
    /\ ~emptyBatch(dataset.appearances)
    /\ SeedInsert(t, "seed_appearances", "appearances",
                  insertAppearances(enc, dataset), afterAppearances(dataset))

\* INSERT OR REPLACE INTO card_pricing
SeedInsertPricing(t) ==
    SeedInsert(t, "seed_pricing", "pricing", insertPricing(enc, dataset),
               afterPricing(dataset))

\* SELECT id, pc_id FROM card_pricing: with no mapping to apply COMMIT is
\* issued, otherwise the UPDATE of the variants
SeedMapRead(t) ==
    SeedInsert(t, "seed_map_read", "pricing", enc,
               IF \E m \in dataset.mappings : \E p \in enc.pricing : p.pc_id = m.pc_id
               THEN "seed_map_update" ELSE "seed_commit")

\* UPDATE variants SET pricing_id = ...; COMMIT is issued
SeedMapUpdate(t) ==
    SeedInsert(t, "seed_map_update", "variants", linkPricing(enc, dataset),
               "seed_commit")

\* COMMIT returns: the write of the marker is issued
SeedCommit(t) ==
    /\ pc[t] = "seed_commit"
    /\ encyclopediaDb = "open"
    /\ txn # <<>>
    /\ txn' = <<>>
    /\ pc' = [pc EXCEPT ![t] = "seed_marker"]
    /\ UNCHANGED <<dbVars, initVars, enc, coll, statsVars, now, arg, ret, calc,
                   seedVars, hist, calls>>

\* a statement of the transaction throws (a failed statement leaves no row
\* of its own): the catch block issues ROLLBACK
SeedInsertFail(t) ==
    /\ pc[t] \in InsertSteps
    /\ encyclopediaDb = "open"
    /\ pc' = [pc EXCEPT ![t] = "seed_rollback"]
    /\ UNCHANGED <<dbVars, initVars, storeVars, statsVars, now, arg, ret, calc,
                   seedVars, hist, calls>>

\* ROLLBACK returns and the error is rethrown. (When SQLite has rolled the
\* transaction back on its own, ROLLBACK fails and the call throws as well,
\* with the same store content.)
SeedRollback(t) ==
    /\ pc[t] = "seed_rollback"
    /\ txn # <<>>
    /\ enc' = rollbackTo(enc, txn[1])
    /\ txn' = <<>>
    /\ SeedReturn(t, "error")
    \* history: the transaction had written rows
    /\ hist' = [hist EXCEPT !.undone = (enc # txn[1])]
    /\ UNCHANGED <<dbVars, initVars, coll, statsVars, now, arg, ret, calc,
                   dataset, calls>>

\* the marker is written: after a migration with the Collection open the
\* purge starts (the variants are read), otherwise the call finishes
SeedMarker(t) ==
    /\ pc[t] = "seed_marker"
    /\ "_metadata" \notin enc.missing
    /\ enc' = writeVersion(enc, DB_VERSION)
    /\ IF seed[t].status = "migration" /\ collectionDb # "null"
       THEN /\ encyclopediaDb = "open"
            /\ pc' = [pc EXCEPT ![t] = "seed_valid"]
            /\ UNCHANGED <<cache, seedVars, hist>>
       ELSE /\ SeedFinish(t)
            /\ hist' = [hist EXCEPT !.seedOk = TRUE]
    /\ UNCHANGED <<dbVars, initVars, txn, coll, statsLocks, now, arg, ret, calc,
                   dataset, calls>>

\* SELECT id FROM variants returns: the read of the Collection is issued
SeedValid(t) ==
    /\ pc[t] = "seed_valid"
    /\ "variants" \notin enc.missing
    /\ collectionDb = "open"
    /\ seed' = [seed EXCEPT ![t].validVariantIds = {v.id : v \in enc.variants}]
    /\ pc' = [pc EXCEPT ![t] = "seed_collection"]
    /\ UNCHANGED <<dbVars, initVars, storeVars, statsVars, now, arg, ret, calc,
                   seedRet, dataset, hist, calls>>

\* SELECT variant_id FROM collection returns: the first orphaned row is
\* deleted, or with none the call finishes
SeedCollection(t) ==
    /\ pc[t] = "seed_collection"
    /\ LET orphans == {v \in DOMAIN coll : isOrphan(seed[t].validVariantIds, v)}
       IN  IF orphans = {}
           THEN /\ SeedFinish(t)
                /\ hist' = [hist EXCEPT !.seedOk = TRUE]
           ELSE /\ collectionDb = "open"
                /\ seed' = [seed EXCEPT ![t].orphans = orphans]
                /\ pc' = [pc EXCEPT ![t] = "seed_purge"]
                /\ UNCHANGED <<cache, seedRet, hist>>
    /\ UNCHANGED <<dbVars, initVars, storeVars, statsLocks, now, arg, ret, calc,
                   dataset, calls>>

\* a DELETE of the purge returns: the next one is issued, or after the last
\* one the call finishes
SeedPurge(t) ==
    /\ pc[t] = "seed_purge"
    /\ \E v \in seed[t].orphans :
          /\ coll' = MapDelete(coll, v)
          /\ IF seed[t].orphans = {v}
             THEN /\ SeedFinish(t)
                  /\ hist' = [hist EXCEPT !.seedOk = TRUE, !.purged = @ \cup {v}]
             ELSE /\ collectionDb = "open"
                  /\ seed' = [seed EXCEPT ![t].orphans = @ \ {v}]
                  /\ hist' = [hist EXCEPT !.purged = @ \cup {v}]
                  /\ UNCHANGED <<cache, pc, seedRet>>
    /\ UNCHANGED <<dbVars, initVars, enc, txn, statsLocks, now, arg, ret, calc,
                   dataset, calls>>

----------------------------------------------------------------------------
(* The statistics and the mutation under interleaving: both stores are     *)
(* open and seeded with the bundled dataset, the Collection is empty, and  *)
(* the tasks call getSetCompletionStats and updateVariantQuantity          *)
(* concurrently while time passes.                                         *)

NoHist == [ticks |-> 0, dropped |-> {}, opens |-> 0, initFails |-> 0, initCalls |-> 0,
           seedOk |-> FALSE, atCall |-> <<>>, atBegin |-> <<>>, purged |-> {},
           undone |-> FALSE, failed |-> [cards |-> {}, variants |-> {}]]

Ready ==
    /\ encyclopediaDb = "open" /\ collectionDb = "open"
    /\ initializationPromise = "fulfilled" /\ isInitialized = TRUE
    /\ initStep = "done"
    /\ initWait = {} /\ initRet = [t \in Tasks |-> "none"]

Quiet ==
    /\ cache = EmptyMap /\ statsLocks = EmptyMap /\ now = 0
    /\ pc = [t \in Tasks |-> "idle"] /\ arg = [t \in Tasks |-> NoArg]
    /\ ret = [t \in Tasks |-> NoRet] /\ calc = [t \in Tasks |-> NoCalc]
    /\ seed = [t \in Tasks |-> NoSeed] /\ seedRet = [t \in Tasks |-> NoSeedRet]
    /\ hist = NoHist /\ calls = 0

Init ==
    /\ Ready
    /\ Quiet
    /\ dataset = TargetDataset
    /\ enc = writeVersion(Catalogue(TargetDataset), DB_VERSION)
    /\ txn = <<>>
    /\ coll = EmptyMap

\* one caller at a time: every call of t1 runs to its end before the next
Next ==
    \/ \E setId \in SetIds : GetStatsCall("t1", setId)
    \/ CalcQuery1("t1")
    \/ CalcQuery2("t1")
    \/ CalcResume("t1")
    \/ CalcFail("t1")
    \/ \E v \in VariantArgs, q \in Quantities : UpdateCall("t1", v, q)
    \/ UpdateWrite("t1")
    \/ UpdateVariant("t1")
    \/ UpdateSets("t1")
    \/ UpdateFail("t1")
    \/ Tick

Spec == Init /\ [][Next]_vars

\* two callers interleave at every await
RaceVariants == {"v1", "v2"}
RaceQuantities == {0, 1}

NextRace ==
    \/ \E t \in Tasks, setId \in SetIds : GetStatsCall(t, setId)
    \/ \E t \in Tasks : CalcQuery1(t)
    \/ \E t \in Tasks : CalcQuery2(t)
    \/ \E t \in Tasks : CalcResume(t)
    \/ \E t \in Tasks : CalcFail(t)
    \/ \E t \in Tasks, v \in RaceVariants, q \in RaceQuantities : UpdateCall(t, v, q)
    \/ \E t \in Tasks : UpdateWrite(t)
    \/ \E t \in Tasks : UpdateVariant(t)
    \/ \E t \in Tasks : UpdateSets(t)
    \/ \E t \in Tasks : UpdateFail(t)

SpecRace == Init /\ [][NextRace]_vars

----------------------------------------------------------------------------
(* Properties of the statistics cache.                                     *)

InFlight(t) == pc[t] \in {"calc_q1", "calc_q2", "calc_fold"}

\* what calculateSetCompletionStats returns on the stores as they are now
FreshStats(setId) ==
    foldStats(cardVariantsQuery(enc, setId),
              ownedQuery(coll, {cv.variant_id : cv \in cardVariantsQuery(enc, setId)}))

\* C1 (single-flight statistics): at every moment at most one calculation
\* is in flight for a set, statsLocks names it, every caller that arrived
\* meanwhile awaits exactly that calculation, and when it settles each of
\* them gets the outcome and the value the owner gets.
C1_OneInFlight ==
    \A s \in SetIds :
        /\ Cardinality({t \in Tasks : InFlight(t) /\ calc[t].setId = s}) <= 1
        /\ \A t \in Tasks : InFlight(t) /\ calc[t].setId = s =>
               s \in DOMAIN statsLocks /\ statsLocks[s] = t
        /\ s \in DOMAIN statsLocks =>
               InFlight(statsLocks[s]) /\ calc[statsLocks[s]].setId = s
        /\ \A j \in Tasks : pc[j] = "join" /\ arg[j].setId = s =>
               s \in DOMAIN statsLocks /\ arg[j].promise = statsLocks[s]

C1_SameResult ==
    \A o \in Tasks : \A j \in Joiners(o) :
        InFlight(o) /\ ~InFlight(o)' =>
            /\ pc'[j] = "idle"
            /\ ret'[j].status = ret'[o].status
            /\ ret'[j].data = ret'[o].data
            /\ ret'[j].setId = calc[o].setId

C1_SingleFlight == [](C1_OneInFlight) /\ [][C1_SameResult]_vars

\* reached: a caller that joined a calculation in flight got its result
C1_Witness ==
    \E j \in Tasks : ret[j].op = "stats" /\ ret[j].status = "ok" /\ ret[j].source = "join"

\* C2 (read-after-write under interleaving): a statistics result returned
\* to a caller is never computed from a Collection read that came before a
\* write of an updateVariantQuantity call this caller had completed.
C2_ReadAfterWrite ==
    \A t \in Tasks :
        ret[t].op = "stats" /\ ret[t].status = "ok" => t \notin ret[t].missed

\* C3 (cache coherence on mutation, one caller): after an update that
\* removed the live entry of set S, a read of S does not return an entry
\* that predates the write, and its value is the one storage gives now.
C3_CacheCoherence ==
    \A s \in hist.dropped :
        ret["t1"].op = "stats" /\ ret["t1"].status = "ok" /\ ret["t1"].setId = s =>
            /\ "t1" \notin ret["t1"].missed
            /\ ret["t1"].data = <<FreshStats(s)>>

\* reached: read, update of a variant of the set, read again within the TTL
\* of the first read, answered by a new calculation
C3_Witness ==
    \E s \in hist.dropped :
        /\ ret["t1"].op = "stats" /\ ret["t1"].status = "ok" /\ ret["t1"].setId = s
        /\ ret["t1"].source = "calc"
        /\ ret["t1"].data[1].total.owned > 0
        /\ now < TTL

----------------------------------------------------------------------------
(* Start of the process: nothing is open; the tasks call                   *)
(* initializeDatabases and closeDatabases in any interleaving.             *)

InitStart ==
    /\ encyclopediaDb = "null" /\ collectionDb = "null"
    /\ initializationPromise = "null" /\ isInitialized = FALSE
    /\ initStep = "idle"
    /\ initWait = {} /\ initRet = [t \in Tasks |-> "none"]
    /\ Quiet
    /\ dataset = TargetDataset
    /\ enc = NoStore
    /\ txn = <<>>
    /\ coll = EmptyMap

NextInit ==
    \/ \E t \in Tasks : InitCall(t)
    \/ InitOpenedEnc
    \/ InitSchemaEnc
    \/ InitWalEnc
    \/ InitOpenedColl
    \/ InitSchemaColl
    \/ InitWalColl
    \/ InitDone
    \/ InitFail
    \/ \E t \in Tasks : CloseCall(t)
    \/ \E t \in Tasks : CloseEnc(t)
    \/ \E t \in Tasks : CloseColl(t)
    \/ \E t \in Tasks : CloseFail(t)

SpecInit == InitStart /\ [][NextInit]_vars

----------------------------------------------------------------------------
(* Properties of initializeDatabases.                                      *)

\* C4 (single-flight initialization): whatever the number and the
\* interleaving of the calls, a first call starts the open sequence, every
\* further open sequence follows a failed one (so without a failure exactly
\* one runs), the callers that arrive while it runs hold its pending promise
\* and all get the same outcome, and a call made after success starts
\* nothing.
C4_OneSequence ==
    /\ hist.opens <= hist.initFails + 1
    /\ hist.initCalls > 0 => hist.opens >= 1
    /\ InitRunning => initializationPromise = "pending"
    /\ initWait # {} => InitRunning
    /\ \A t \in Tasks : pc[t] = "init_wait" <=> t \in initWait

C4_SameOutcome ==
    /\ InitRunning /\ ~InitRunning' =>
           \A t, u \in initWait : initRet'[t] = initRet'[u] /\ initRet'[t] # "none"
    /\ isInitialized /\ hist'.initCalls > hist.initCalls =>
           /\ hist'.opens = hist.opens
           /\ initStep' = initStep
           /\ \E t \in Tasks : initRet' = [initRet EXCEPT ![t] = "ok"]

C4_SingleFlightInit == [](C4_OneSequence) /\ [][C4_SameOutcome]_vars

\* reached: two callers shared one open sequence and both saw it succeed
C4_Witness ==
    /\ hist.opens = 1 /\ hist.initFails = 0 /\ hist.initCalls >= 2
    /\ isInitialized
    /\ \A t \in Tasks : initRet[t] = "ok"

\* C5 (failed open is retryable): the failure of any step of the open
\* sequence leaves initializationPromise null, isInitialized false and both
\* handles null, every waiting caller gets the error, and the next call
\* starts a new open sequence.
C5_Reset ==
    /\ initializationPromise # "rejected"
    /\ ~InitRunning /\ ~isInitialized =>
           /\ initializationPromise = "null"
           /\ encyclopediaDb = "null" /\ collectionDb = "null"

C5_Retry ==
    /\ hist'.initFails > hist.initFails =>
           /\ initializationPromise' = "null" /\ ~isInitialized'
           /\ encyclopediaDb' = "null" /\ collectionDb' = "null"
           /\ \A t \in initWait : initRet'[t] = "error"
    /\ hist.initFails > 0 /\ ~InitRunning /\ ~isInitialized
         /\ hist'.initCalls > hist.initCalls =>
           /\ hist'.opens = hist.opens + 1
           /\ initStep' = "open_enc"

C5_FailedOpenRetryable == [](C5_Reset) /\ [][C5_Retry]_vars

\* reached: an open sequence failed after encyclopedia.db was open, and the
\* retry succeeded
C5_Witness ==
    /\ hist.initFails >= 1 /\ hist.opens = hist.initFails + 1
    /\ isInitialized /\ encyclopediaDb = "open" /\ collectionDb = "open"

----------------------------------------------------------------------------
(* Reseeding: both stores are open; encyclopedia.db is new, or holds the   *)
(* catalogue of the previous, the current or a later version of the app;   *)
(* one caller reseeds, reads statistics and changes quantities, one call   *)
(* after the other, and any storage call of the reseed may fail.           *)

\* the catalogue of the previous version had a variant that is gone
OldDataset ==
    [TargetDataset EXCEPT
        !.variants = Append(@, [id |-> "v4", card_id |-> "c3", pricing_id |-> NULL]),
        !.appearances = Append(@, [set_id |-> "s2", variant_id |-> "v4",
                                   card_number |-> <<"P", "2">>, rarity |-> NoRarity])]

\* the catalogue of a later version has a card more
NewerDataset ==
    [TargetDataset EXCEPT
        !.cards = Append(@, [id |-> "c4", name |-> "Yoda"]),
        !.setCards = Append(@, [set_id |-> "s2", card_id |-> "c4",
                                card_number |-> <<"9">>, rarity |-> R("R", "2")]),
        !.variants = Append(@, [id |-> "v6", card_id |-> "c4", pricing_id |-> NULL])]

InitialStores ==
    { EmptyStore,
      writeVersion(Catalogue(OldDataset), DB_VERSION - 1),
      writeVersion(Catalogue(TargetDataset), DB_VERSION),
      writeVersion(Catalogue(NewerDataset), DB_VERSION + 1) }

InitSeed ==
    /\ Ready
    /\ Quiet
    /\ dataset = TargetDataset
    /\ enc \in InitialStores
    /\ txn = <<>>
    /\ coll = EmptyMap

SeedVariantArgs == {"v1", "v4"}
SeedQuantities == {1}

NextSeed ==
    \/ SeedCall("t1")
    \/ SeedStatus("t1")
    \/ SeedStatusFail("t1")
    \/ SeedDrop("t1")
    \/ SeedDropFail("t1")
    \/ SeedSchema("t1")
    \/ SeedDelete("t1")
    \/ SeedDeleteFail("t1")
    \/ SeedBegin("t1")
    \/ SeedFail("t1")
    \/ SeedInsertSets("t1")
    \/ SeedInsertCards("t1")
    \/ SeedInsertSetCards("t1")
    \/ SeedInsertVariants("t1")
    \/ SeedInsertAppearances("t1")
    \/ SeedInsertPricing("t1")
    \/ SeedMapRead("t1")
    \/ SeedMapUpdate("t1")
    \/ SeedCommit("t1")
    \/ SeedInsertFail("t1")
    \/ SeedRollback("t1")
    \/ SeedMarker("t1")
    \/ SeedValid("t1")
    \/ SeedCollection("t1")
    \/ SeedPurge("t1")
    \/ \E setId \in SetIds : GetStatsCall("t1", setId)
    \/ CalcQuery1("t1")
    \/ CalcQuery2("t1")
    \/ CalcResume("t1")
    \/ CalcFail("t1")
    \/ \E v \in SeedVariantArgs, q \in SeedQuantities : UpdateCall("t1", v, q)
    \/ UpdateWrite("t1")
    \/ UpdateVariant("t1")
    \/ UpdateSets("t1")
    \/ UpdateFail("t1")

SpecSeed == InitSeed /\ [][NextSeed]_vars

----------------------------------------------------------------------------
(* Properties of seedEncyclopedia.                                         *)

SeedSteps == InsertSteps \cup {"seed_status", "seed_drop", "seed_schema",
                               "seed_delete", "seed_begin", "seed_rollback",
                               "seed_marker", "seed_valid", "seed_collection",
                               "seed_purge"}

\* what encyclopedia.db holds durably: the rows of an open transaction are
\* not committed
Committed == IF txn = <<>> THEN enc ELSE txn[1]

\* every row of the dataset is in the store
ContainsCatalogue(E, D) ==
    /\ E.missing = {}
    /\ Catalogue(D).sets \subseteq E.sets
    /\ Catalogue(D).cards \subseteq E.cards
    /\ Catalogue(D).set_cards \subseteq E.set_cards
    /\ Catalogue(D).variants \subseteq E.variants
    /\ Catalogue(D).appearances \subseteq E.appearances
    /\ Catalogue(D).pricing \subseteq E.pricing

\* C6 (atomic insert sequence): when a statement between BEGIN and COMMIT
\* fails, the call ends with the tables as they were at BEGIN (no row of
\* this call is left) and with the version stored before the call; until
\* COMMIT no row of the call is committed, and COMMIT commits the complete
\* dataset.
C6_Step ==
    \A t \in Tasks :
        /\ pc[t] = "seed_rollback" /\ pc'[t] = "idle" =>
              /\ seedRet'[t].status = "error"
              /\ txn' = <<>>
              /\ SameTables(enc', hist.atBegin[1])
              /\ enc'.meta = hist.atCall[1].meta
        /\ pc[t] \in InsertSteps /\ pc'[t] \in InsertSteps \cup {"seed_rollback"} =>
              /\ Committed' = hist.atBegin[1]
              /\ enc'.meta = hist.atCall[1].meta
        /\ pc[t] = "seed_commit" /\ pc'[t] = "seed_marker" =>
              /\ Committed' = enc
              /\ ContainsCatalogue(Committed', dataset)

C6_AtomicInsert == [][C6_Step]_vars

\* reached: a call failed after it had inserted rows, and they are gone
C6_Witness ==
    /\ seedRet["t1"].status = "error" /\ pc["t1"] = "idle"
    /\ hist.undone
    /\ hist.atBegin # <<>> /\ SameTables(enc, hist.atBegin[1])
    /\ enc.variants = {}

\* C7 (marker after commit): whenever the stored db_version equals
\* DB_VERSION, encyclopedia.db holds the complete target dataset.
C7_MarkerAfterCommit ==
    HasVersion(Committed) /\ StoredVersion(Committed) = DB_VERSION =>
        ContainsCatalogue(Committed, dataset)

\* C8 (version monotonicity): no step lowers or removes the stored
\* db_version, and no step changes a table of encyclopedia.db while the
\* stored version is DB_VERSION or later.
C8_Step ==
    HasVersion(enc) =>
        /\ HasVersion(enc') /\ StoredVersion(enc') >= StoredVersion(enc)
        /\ StoredVersion(enc) >= DB_VERSION => SameTables(enc, enc')

C8_VersionMonotone == [][C8_Step]_vars

\* C9 (idempotent reconciliation): once a seedEncyclopedia call has
\* succeeded, every step of a further call leaves both stores and the cache
\* as they are, and the call returns 'up-to-date'.
C9_Step ==
    \A t \in Tasks :
        hist.seedOk /\ pc[t] \in SeedSteps =>
            /\ enc' = enc /\ coll' = coll /\ cache' = cache
            /\ pc'[t] = "idle" => seedRet'[t].status = "up-to-date"

C9_Idempotent == [][C9_Step]_vars

Orphans(C, E) == {v \in DOMAIN C : \A r \in E.variants : r.id # v}

\* C10 (orphan purge): when a seedEncyclopedia call returns 'first-time' or
\* 'migration', no Collection row names a variant missing from the
\* variants table.
C10_Step ==
    \A t \in Tasks :
        /\ pc[t] \in SeedSteps /\ pc'[t] = "idle"
        /\ seedRet'[t].status \in {"first-time", "migration"}
        => Orphans(coll', enc') = {}

C10_OrphanPurge == [][C10_Step]_vars

\* C10 as amended: when a seedEncyclopedia call returns 'migration' (the
\* Collection being open, and no quantity written during the call), no
\* Collection row names a variant missing from the variants table; a call
\* that returns 'first-time' leaves the Collection as it is.
C10_MigrationStep ==
    \A t \in Tasks :
        /\ pc[t] \in SeedSteps /\ pc'[t] = "idle" /\ seedRet'[t].status = "migration"
              => Orphans(coll', enc') = {}
        /\ pc[t] \in SeedSteps /\ seed[t].status = "first-time" => coll' = coll

C10_MigrationPurge == [][C10_MigrationStep]_vars

\* reached: a migration deleted the row of a variant that is gone and kept
\* the row of a variant that stays
C10_Witness ==
    /\ seedRet["t1"].status = "migration" /\ pc["t1"] = "idle"
    /\ hist.purged = {"v4"}
    /\ DOMAIN coll = {"v1"}

----------------------------------------------------------------------------
(* Reseeding with other datasets while quantities change: encyclopedia.db  *)
(* is new or holds the catalogue of the previous version; one task         *)
(* reseeds, with a dataset that is complete, that has a variant without a  *)
(* set appearance, or that has references to rows it does not contain;     *)
(* another task changes quantities at any time.                            *)

\* the variant v5 is in no set
SparseDataset ==
    [TargetDataset EXCEPT
        !.appearances = SelectSeq(@, LAMBDA a : a.variant_id # "v5")]

\* a variant of a card, and appearances in a set and of a variant, that the
\* dataset does not contain
DanglingDataset ==
    [TargetDataset EXCEPT
        !.variants = Append(@, [id |-> "v7", card_id |-> "c9", pricing_id |-> NULL]),
        !.appearances = Append(Append(@,
            [set_id |-> "s9", variant_id |-> "v1", card_number |-> <<"1">>,
             rarity |-> NoRarity]),
            [set_id |-> "s1", variant_id |-> "v8", card_number |-> <<"3">>,
             rarity |-> NoRarity])]

\* a set id and a card id occur twice
DuplicateDataset ==
    [TargetDataset EXCEPT
        !.sets = Append(@, [id |-> "s1", name |-> "Premiere II"]),
        !.cards = Append(@, [id |-> "c1", name |-> "Luke II"])]

Datasets == {TargetDataset, SparseDataset, DanglingDataset, DuplicateDataset}

InitData ==
    /\ Ready
    /\ Quiet
    /\ dataset \in Datasets
    /\ enc \in {EmptyStore, writeVersion(Catalogue(OldDataset), DB_VERSION - 1)}
    /\ txn = <<>>
    /\ coll = EmptyMap

DataVariantArgs == {"v4", "v5"}
DataQuantities == {2}

NextData ==
    \/ SeedCall("t1")
    \/ SeedStatus("t1")
    \/ SeedStatusFail("t1")
    \/ SeedDrop("t1")
    \/ SeedDropFail("t1")
    \/ SeedSchema("t1")
    \/ SeedDelete("t1")
    \/ SeedDeleteFail("t1")
    \/ SeedBegin("t1")
    \/ SeedFail("t1")
    \/ SeedInsertSets("t1")
    \/ SeedInsertCards("t1")
    \/ SeedInsertSetCards("t1")
    \/ SeedInsertVariants("t1")
    \/ SeedInsertAppearances("t1")
    \/ SeedInsertPricing("t1")
    \/ SeedMapRead("t1")
    \/ SeedMapUpdate("t1")
    \/ SeedCommit("t1")
    \/ SeedInsertFail("t1")
    \/ SeedRollback("t1")
    \/ SeedMarker("t1")
    \/ SeedValid("t1")
    \/ SeedCollection("t1")
    \/ SeedPurge("t1")
    \/ \E v \in DataVariantArgs, q \in DataQuantities : UpdateCall("t2", v, q)
    \/ UpdateWrite("t2")
    \/ UpdateVariant("t2")
    \/ UpdateSets("t2")
    \/ UpdateFail("t2")

SpecData == InitData /\ [][NextData]_vars

\* the step is one of the seedEncyclopedia call of t
SeedStepOf(t) ==
    pc[t] \in SeedSteps /\ (pc'[t] # pc[t] \/ seed'[t] # seed[t])

InDataset(D, variantId) == \E i \in 1..Len(D.variants) : D.variants[i].id = variantId

\* C11 (Collection preservation across reseed): no step of seedEncyclopedia
\* deletes or changes the Collection row of a variant of the new dataset,
\* whether or not that variant has a variant_set_appearances row.
C11_Step ==
    \A t \in Tasks :
        SeedStepOf(t) =>
            \A v \in DOMAIN coll :
                InDataset(dataset, v) => v \in DOMAIN coll' /\ coll'[v] = coll[v]

C11_Preserved == [][C11_Step]_vars

\* reached: a migration to a dataset in which v5 has no set appearance kept
\* the row of v5 and deleted the row of v4, which the dataset lacks
C11_Witness ==
    /\ dataset = SparseDataset
    /\ seedRet["t1"].status = "migration" /\ pc["t1"] = "idle"
    /\ hist.purged = {"v4"}
    /\ "v5" \in DOMAIN coll /\ coll["v5"] = 2
    /\ \A a \in enc.appearances : a.variant_id # "v5"

----------------------------------------------------------------------------
(* Properties of updateVariantQuantity.                                    *)

UpdateSteps == {"upd_write", "upd_variant", "upd_sets"}

\* C12 (sparse ledger): every row of the Collection holds a quantity
\* greater than 0 (quantity 0 means no row, and no row is negative).
C12_SparseLedger == \A v \in DOMAIN coll : coll[v] > 0

\* C13 (invalid arguments are rejected without side effects): no step of an
\* updateVariantQuantity call whose quantity is negative or whose variant
\* is not in the variants table changes the Collection or the cache, and
\* the call ends with an error.
C13_Step ==
    \A t \in Tasks :
        /\ pc[t] \in UpdateSteps /\ pc'[t] # pc[t]
        /\ \/ arg[t].quantity < 0
           \/ \A r \in enc.variants : r.id # arg[t].variantId
        => /\ coll' = coll /\ cache' = cache
           /\ pc'[t] = "idle" => ret'[t].status = "error"

C13_InvalidRejected == [][C13_Step]_vars

----------------------------------------------------------------------------
(* The in-flight marker. A storage query that was issued returns or        *)
(* throws: the steps of a calculation in flight are taken eventually.      *)

SpecRaceFair ==
    /\ SpecRace
    /\ \A t \in Tasks :
          WF_vars(CalcQuery1(t) \/ CalcQuery2(t) \/ CalcResume(t) \/ CalcFail(t))

\* C14 (the in-flight marker is always cleared): statsLocks names a set
\* only while its calculation is in flight; when the calculation settles
\* the entry is gone; a failure stores nothing in the cache and reaches
\* every caller that joined; a caller never joins a calculation that has
\* settled; and a set in flight is eventually not in flight.
C14_Locked ==
    \A s \in DOMAIN statsLocks :
        InFlight(statsLocks[s]) /\ calc[statsLocks[s]].setId = s

C14_Step ==
    \A o \in Tasks :
        /\ InFlight(o) /\ ~InFlight(o)' =>
              /\ calc[o].setId \notin DOMAIN statsLocks'
              /\ ret'[o].status = "error" =>
                    /\ cache' = cache
                    /\ \A j \in Joiners(o) :
                          pc'[j] = "idle" /\ ret'[j].status = "error"
              /\ ret'[o].status = "ok" =>
                    /\ calc[o].setId \in DOMAIN cache'
                    /\ cache'[calc[o].setId].timestamp = now
                    /\ ret'[o].data = <<cache'[calc[o].setId].data>>
        /\ pc[o] = "idle" /\ pc'[o] = "join" => InFlight(arg'[o].promise)

C14_Eventually ==
    \A s \in SetIds : (s \in DOMAIN statsLocks) ~> (s \notin DOMAIN statsLocks)

C14_MarkerCleared == [](C14_Locked) /\ [][C14_Step]_vars /\ C14_Eventually

\* reached: a calculation failed, a caller that had joined it got the
\* error, and a later call for the same set runs a new calculation
C14_Witness ==
    \E j, t \in Tasks :
        /\ ret[j].op = "stats" /\ ret[j].status = "error" /\ ret[j].source = "join"
        /\ pc[t] = "calc_q1" /\ calc[t].setId = ret[j].setId
        /\ ret[j].setId \notin DOMAIN cache

----------------------------------------------------------------------------
(* The time-to-live of a cache entry.                                      *)

\* caller t takes the step getSetCompletionStats(s) up to its first await
StatsCallOf(t, s) ==
    /\ pc[t] = "idle" /\ calls' = calls + 1
    /\ \/ pc'[t] = "idle" /\ ret'[t].op = "stats" /\ ret'[t].setId = s
       \/ pc'[t] \in {"calc_q1", "join"} /\ arg'[t].setId = s

\* C15 (TTL bound): a lookup answers from the cache exactly when an entry
\* exists whose age, now minus its timestamp, is below 30000; the answer is
\* then the entry's data and the cache is unchanged. An entry of age 30000
\* or more is never returned: the lookup removes it and the statistics are
\* computed again (or awaited from the calculation in flight).
C15_Step ==
    \A t \in Tasks : \A s \in SetIds :
        StatsCallOf(t, s) =>
            LET has == s \in DOMAIN cache
                hit == pc'[t] = "idle" /\ ret'[t].source = "cache"
            IN  /\ hit <=> (has /\ now - cache[s].timestamp < TTL)
                /\ hit => ret'[t].data = <<cache[s].data>> /\ cache' = cache
                /\ (has /\ now - cache[s].timestamp >= TTL) =>
                      /\ s \notin DOMAIN cache'
                      /\ \/ pc'[t] \in {"calc_q1", "join"}
                         \/ ret'[t].status = "error"

C15_TtlBound == [][C15_Step]_vars

\* reached: an entry stored at time 0 was looked up at time 30000 exactly,
\* was removed, and the statistics are being computed again
C15_Witness ==
    /\ pc["t1"] = "calc_q1" /\ calc["t1"].swept
    /\ now = TTL
    /\ calc["t1"].setId \notin DOMAIN cache

----------------------------------------------------------------------------
(* The end of a rebuilding run.                                            *)

\* the step of seedEncyclopedia by caller t that ends a call whose status
\* was 'first-time' or 'migration': the return, or the throw
RebuildEnds(t) ==
    /\ pc[t] \in SeedSteps
    /\ seed[t].status \in {"first-time", "migration"}
    /\ pc'[t] = "idle"

\* C16 (cache invalidation after rebuild): when a run whose status is not
\* 'up-to-date' ends, by returning or by failing in any step after the
\* status was computed, the stats cache is empty.
C16_Step ==
    \A t \in Tasks : RebuildEnds(t) => cache' = EmptyMap

C16_InvalidatedAtEnd == [][C16_Step]_vars

\* C17 (failed reconciliation is fully rolled back): when a 'migration' run
\* fails during the rebuild (the drop, the schema, BEGIN, an insert or
\* COMMIT), the Encyclopedia is the one the call found: the same rows and
\* the same version marker.
C17_Step ==
    \A t \in Tasks :
        ( /\ RebuildEnds(t)
          /\ seed[t].status = "migration"
          /\ pc[t] \in {"seed_drop", "seed_schema", "seed_begin", "seed_rollback"}
          /\ seedRet'[t].status = "error" )
        => enc' = hist.atCall[1]

C17_FullyRolledBack == [][C17_Step]_vars

\* equality of the catalogue tables with the rows of the dataset
ExactlyCatalogue(E, D) == SameTables(E, Catalogue(D))

\* C18 (retry safety): a call made after a call that threw before its
\* marker write completed is never classified 'up-to-date', and when it
\* returns 'first-time' or 'migration' the Encyclopedia holds exactly the
\* rows of the dataset.
C18_Step ==
    \A t \in Tasks :
        (seed[t].retry /\ pc[t] \in SeedSteps /\ pc'[t] = "idle") =>
            /\ seedRet'[t].status # "up-to-date"
            /\ seedRet'[t].status \in {"first-time", "migration"} =>
                  ExactlyCatalogue(enc', dataset)

C18_RetrySafe == [][C18_Step]_vars

----------------------------------------------------------------------------
(* Referential integrity of the catalogue.                                 *)

RefIntegrity(E) ==
    /\ \A v \in E.variants : \E c \in E.cards : c.id = v.card_id
    /\ \A a \in E.appearances :
          /\ \E x \in E.sets : x.id = a.set_id
          /\ \E v \in E.variants : v.id = a.variant_id

\* C19 (referential integrity): when a seedEncyclopedia call returns a
\* status, whatever the dataset, every variants row names a stored card and
\* every variant_set_appearances row names a stored set and a stored
\* variant.
C19_Step ==
    \A t \in Tasks :
        ( /\ pc[t] \in SeedSteps /\ pc'[t] = "idle"
          /\ seedRet'[t].status \in {"first-time", "migration", "up-to-date"} )
        => RefIntegrity(enc')

C19_RefIntegrity == [][C19_Step]_vars

----------------------------------------------------------------------------
(* calculateSetCompletionStats as a function of the two stores: one        *)
(* caller computes the statistics of a set over a catalogue and a          *)
(* Collection drawn from bounded sets.                                     *)

StatsCatalogues ==
    {Catalogue(TargetDataset), Catalogue(SparseDataset), Catalogue(OldDataset)}

StatsVariants == {"v1", "v2", "v3", "v5"}

StatsCollections == UNION {[V -> 1..MaxQty] : V \in SUBSET StatsVariants}

InitStats ==
    /\ Ready
    /\ Quiet
    /\ dataset = TargetDataset
    /\ enc \in {writeVersion(E, DB_VERSION) : E \in StatsCatalogues}
    /\ txn = <<>>
    /\ coll \in StatsCollections

NextStats ==
    \/ \E setId \in SetIds : GetStatsCall("t1", setId)
    \/ CalcQuery1("t1")
    \/ CalcQuery2("t1")
    \/ CalcResume("t1")

SpecStats == InitStats /\ [][NextStats]_vars

\* the statistics of set S by the reference fold: the cards with a variant
\* appearing in S, each in the bucket of its rarity in S, owned when a
\* variant of it that appears in S has a positive quantity
referenceStats(E, C, S) ==
    LET inS == {a \in E.appearances : a.set_id = S}
        cardOf(a) == {v.card_id : v \in {x \in E.variants : x.id = a.variant_id}}
        cards == UNION {cardOf(a) : a \in inS}
        rarityOf(c) == (CHOOSE a \in inS : c \in cardOf(a)).rarity
        isOwned(c) == \E a \in inS :
                          /\ c \in cardOf(a)
                          /\ a.variant_id \in DOMAIN C /\ C[a.variant_id] > 0
        bucket(b) ==
            [owned |-> Cardinality({c \in cards :
                           normalizeRarity(rarityOf(c)) = b /\ isOwned(c)}),
             total |-> Cardinality({c \in cards :
                           normalizeRarity(rarityOf(c)) = b})]
    IN  [total |-> [owned |-> Cardinality({c \in cards : isOwned(c)}),
                    total |-> Cardinality(cards)],
         common |-> bucket("common"), uncommon |-> bucket("uncommon"),
         rare |-> bucket("rare"), other |-> bucket("other")]

\* C20 (statistics reference semantics): the statistics a call returns for
\* set S are the reference fold over the cards with a variant appearance in
\* S, a card being owned exactly when one of its variants appearing in S
\* has a positive quantity.
C20_ReferenceStats ==
    \A t \in Tasks :
        (pc[t] = "idle" /\ ret[t].op = "stats" /\ ret[t].status = "ok") =>
            ret[t].data = <<referenceStats(enc, coll, ret[t].setId)>>

----------------------------------------------------------------------------
(* The classification of the stored version.                               *)

\* the status that the step of caller t out of checkDatabaseStatus yields
StatusOf(t) ==
    IF pc'[t] = "idle" THEN seedRet'[t].status ELSE seed'[t].status

\* C21 (status classification): the status computed by a call is
\* 'first-time' exactly when no db_version row is stored, 'migration'
\* exactly when the stored version is below DB_VERSION, and 'up-to-date'
\* exactly when it is DB_VERSION or later.
C21_Step ==
    \A t \in Tasks :
        (pc[t] = "seed_status" /\ pc'[t] # "seed_status") =>
            /\ StatusOf(t) = "first-time" <=> ~HasVersion(enc)
            /\ StatusOf(t) = "migration" <=>
                  (HasVersion(enc) /\ StoredVersion(enc) < DB_VERSION)
            /\ StatusOf(t) = "up-to-date" <=>
                  (HasVersion(enc) /\ StoredVersion(enc) >= DB_VERSION)

C21_StatusClassification == [][C21_Step]_vars

----------------------------------------------------------------------------
(* searchCardsByName. A name and a query are sequences of characters. The  *)
(* result is kept as the set of its entries: its order is not modelled.    *)
(* One caller searches; nothing is written to the stores meanwhile.        *)

\* toLowerCase, then the apostrophe variants become the single quote (the
\* dash variants become -, none of which occurs in the names below); the
\* characters "APOS" and "GRAVE" stand for the single quote and the backtick
normalizeChar(ch) ==
    CASE ch = "H" -> "h" [] ch = "L" -> "l" [] ch = "R" -> "r" [] ch = "D" -> "d"
      [] ch = "GRAVE" -> "APOS"
      [] OTHER -> ch

normalizeSearchString(str) == [i \in 1..Len(str) |-> normalizeChar(str[i])]

\* replace(/['\-\s]/g, '')
isFuzzyChar(ch) == ch \notin {"APOS", "-", " "}
fuzzyString(str) == SelectSeq(str, isFuzzyChar)

\* String.prototype.includes
includes(hay, needle) ==
    \E i \in 0..(Len(hay) - Len(needle)) :
        SubSeq(hay, i + 1, i + Len(needle)) = needle

matchesQuery(name, searchQuery) ==
    LET normalizedQuery == normalizeSearchString(searchQuery)
        normalizedCardName == normalizeSearchString(name)
    IN  \/ includes(normalizedCardName, normalizedQuery)
        \/ includes(fuzzyString(normalizedCardName), fuzzyString(normalizedQuery))

\* the order of the card ids under MIN(c.id)
IdOrder == <<"k1", "k2", "k3", "k4">>
IdRank(id) == CHOOSE i \in 1..Len(IdOrder) : IdOrder[i] = id
MinId(ids) == CHOOSE x \in ids : \A y \in ids : IdRank(x) <= IdRank(y)

\* GROUP BY c.name, c.side, c.type, c.icon
sameGroup(c, d) ==
    c.name = d.name /\ c.side = d.side /\ c.type = d.type /\ c.icon = d.icon

\* SELECT DISTINCT c.name, MIN(c.id) as id, c.side, c.type, c.icon ... GROUP BY
allCardsQuery(E) ==
    {[card_name |-> c.name,
      card_id |-> MinId({d.id : d \in {x \in E.cards : sameGroup(x, c)}}),
      side |-> c.side, type |-> c.type, icon |-> c.icon] : c \in E.cards}

\* the matching rows
cardNames(E, searchQuery) ==
    {g \in allCardsQuery(E) : matchesQuery(g.card_name, searchQuery)}

\* SELECT DISTINCT v.id ... FROM variants v JOIN cards c ON v.card_id = c.id
\* WHERE c.name = ?
variantsRaw(E, name) ==
    {v.id : v \in {x \in E.variants :
                      \E c \in E.cards : c.id = x.card_id /\ c.name = name}}

\* the first set appearance of a variant: its set id, or '' when it has none
\* (every variant below has at most one appearance)
firstAppearance(E, variantId) ==
    IF \E a \in E.appearances : a.variant_id = variantId
    THEN (CHOOSE a \in E.appearances : a.variant_id = variantId).set_id
    ELSE ""

\* the catch block of the lookups of one variant: quantity: 0
quantityOnError(C, variantId) == 0

\* one variant of a result entry; failed: one of its two lookups threw
variantWithQuantity(E, C, variantId, failed) ==
    IF failed
    THEN [id |-> variantId, quantity |-> quantityOnError(C, variantId), setName |-> ""]
    ELSE [id |-> variantId,
          quantity |-> IF variantId \in DOMAIN C /\ C[variantId] # 0
                       THEN C[variantId] ELSE 0,
          setName |-> firstAppearance(E, variantId)]

\* the entries of the result: a card whose variant list failed is left out
searchResult(E, C, searchQuery, failCards, failVariants) ==
    {[id |-> g.card_id, name |-> g.card_name, side |-> g.side, type |-> g.type,
      icon |-> g.icon,
      variants |-> {variantWithQuantity(E, C, v, v \in failVariants) :
                       v \in variantsRaw(E, g.card_name)}] :
        g \in {x \in cardNames(E, searchQuery) : x.card_id \notin failCards}}

SearchRet(result) ==
    [op |-> "search", status |-> "ok", setId |-> NULL, data |-> <<result>>,
     missed |-> {}, source |-> "none"]

\* searchCardsByName up to its first await: the guards, then the query over
\* cards is issued
SearchCall(t, searchQuery) ==
    /\ pc[t] = "idle"
    /\ calls < MaxCalls
    /\ calls' = calls + 1
    /\ IF encyclopediaDb = "null" \/ collectionDb = "null"
       THEN /\ ret' = [ret EXCEPT ![t] = ErrorRet("search", NULL)]
            /\ UNCHANGED <<pc, arg>>
       ELSE /\ pc' = [pc EXCEPT ![t] = "search_cards"]
            /\ arg' = [arg EXCEPT ![t] = [NoArg EXCEPT !.query = searchQuery]]
            /\ ret' = [ret EXCEPT ![t] = NoRet]
    /\ hist' = [hist EXCEPT !.failed = NoHist.failed]
    /\ UNCHANGED <<dbVars, initVars, storeVars, statsVars, seedVars, now, calc>>

\* the query over cards throws: the outer catch returns []
SearchCardsFail(t) ==
    /\ pc[t] = "search_cards"
    /\ pc' = [pc EXCEPT ![t] = "idle"]
    /\ ret' = [ret EXCEPT ![t] = SearchRet({})]
    /\ UNCHANGED <<dbVars, initVars, storeVars, statsVars, seedVars, now, arg,
                   calc, hist, calls>>

\* the query over cards returns and the batches run: for the cards of
\* failCards the variant list throws, for the variants of failVariants the
\* appearance or the quantity lookup throws
SearchBatches(t) ==
    /\ pc[t] = "search_cards"
    /\ "cards" \notin enc.missing
    /\ \E failCards \in SUBSET {g.card_id : g \in cardNames(enc, arg[t].query)},
          failVariants \in SUBSET {v.id : v \in enc.variants} :
          /\ ret' = [ret EXCEPT ![t] =
                        SearchRet(searchResult(enc, coll, arg[t].query,
                                               failCards, failVariants))]
          /\ hist' = [hist EXCEPT !.failed = [cards |-> failCards,
                                              variants |-> failVariants]]
    /\ pc' = [pc EXCEPT ![t] = "idle"]
    /\ UNCHANGED <<dbVars, initVars, storeVars, statsVars, seedVars, now, arg,
                   calc, calls>>

\* a catalogue in which two cards share a name and differ in side
SearchCatalogue ==
    [EmptyStore EXCEPT
        !.sets = {[id |-> "s1", name |-> "Premiere"], [id |-> "s2", name |-> "Hoth"]},
        !.cards = {[id |-> "k1", name |-> <<"H", "a", "n">>, side |-> "light",
                    type |-> "Character", icon |-> NULL],
                   [id |-> "k2", name |-> <<"H", "a", "n">>, side |-> "dark",
                    type |-> "Character", icon |-> NULL],
                   [id |-> "k3", name |-> <<"R", "2", "-", "D", "2">>, side |-> "light",
                    type |-> "Droid", icon |-> NULL],
                   [id |-> "k4", name |-> <<"R", "2", "-", "D", "2">>, side |-> "light",
                    type |-> "Droid", icon |-> NULL]},
        !.variants = {[id |-> "w1", card_id |-> "k1", pricing_id |-> NULL],
                      [id |-> "w2", card_id |-> "k2", pricing_id |-> NULL],
                      [id |-> "w3", card_id |-> "k3", pricing_id |-> NULL],
                      [id |-> "w4", card_id |-> "k4", pricing_id |-> NULL]},
        !.appearances = {[set_id |-> "s1", variant_id |-> "w1",
                          card_number |-> <<"1">>, rarity |-> R("R", "1")],
                         [set_id |-> "s2", variant_id |-> "w2",
                          card_number |-> <<"2">>, rarity |-> R("R", "1")],
                         [set_id |-> "s1", variant_id |-> "w3",
                          card_number |-> <<"3">>, rarity |-> R("C", "1")]}]

SearchQueries == {<<"h", "a">>, <<"r", "2", "d">>, <<"2">>, <<"x">>}

SearchVariants == {"w1", "w3", "w4"}

InitSearch ==
    /\ Ready
    /\ Quiet
    /\ dataset = TargetDataset
    /\ enc = writeVersion(SearchCatalogue, DB_VERSION)
    /\ txn = <<>>
    /\ coll \in UNION {[V -> 1..MaxQty] : V \in SUBSET SearchVariants}

NextSearch ==
    \/ \E q \in SearchQueries : SearchCall("t1", q)
    \/ SearchCardsFail("t1")
    \/ SearchBatches("t1")

SpecSearch == InitSearch /\ [][NextSearch]_vars

\* the result of the last search of caller t, when t has one
Searched(t) == pc[t] = "idle" /\ ret[t].op = "search" /\ ret[t].status = "ok"

StoredQuantity(C, variantId) == IF variantId \in DOMAIN C THEN C[variantId] ELSE 0

\* C22 (per-card degradation): no entry of a result belongs to a card one
\* of whose sub-queries failed (its variant list, or a lookup of one of its
\* variants), and every variant of a result carries the quantity stored in
\* the Collection.
C22_PerCardDegradation ==
    \A t \in Tasks :
        Searched(t) =>
            \A e \in ret[t].data[1] :
                /\ e.id \notin hist.failed.cards
                /\ \A v \in e.variants :
                      /\ v.id \notin hist.failed.variants
                      /\ v.quantity = StoredQuantity(coll, v.id)

\* C23 (grouping by name): no two entries of a result have the same name,
\* and an entry carries the variants of every card of its name.
C23_GroupedByName ==
    \A t \in Tasks :
        Searched(t) =>
            \A e \in ret[t].data[1] :
                /\ \A f \in ret[t].data[1] : f.name = e.name => f = e
                /\ {v.id : v \in e.variants} = variantsRaw(enc, e.name)

----------------------------------------------------------------------------
(* getCardsInSet. A card number is a sequence of characters. One caller    *)
(* reads; nothing is written to the stores meanwhile.                      *)

Digits == <<"0", "1", "2", "3", "4", "5", "6", "7", "8", "9">>

\* the characters of the card numbers and rarities below, in the order of
\* their codes (the BINARY collation compares the bytes)
CharOrder == Digits \o <<"A", "C", "P", "R", "U", "u">>
CharRank(ch) == CHOOSE i \in 1..Len(CharOrder) : CharOrder[i] = ch

isDigit(ch) == \E i \in 1..Len(Digits) : Digits[i] = ch
digitValue(ch) == (CHOOSE i \in 1..Len(Digits) : Digits[i] = ch) - 1

\* text1 < text2 under the BINARY collation
textLess(a, b) ==
    \E i \in 1..Len(b) :
        /\ \A j \in 1..(i - 1) : j <= Len(a) /\ a[j] = b[j]
        /\ i > Len(a) \/ CharRank(a[i]) < CharRank(b[i])

\* MIN(column) over text values
textMin(values) == CHOOSE x \in values : \A y \in values : x = y \/ textLess(x, y)

\* MIN(vsa.rarity): NULL values are skipped
rarityMin(values) ==
    IF values \ {NoRarity} = {} THEN NoRarity ELSE textMin(values \ {NoRarity})

\* (mutation: the letters are kept)
replaceNothing(str) == str

\* REPLACE(REPLACE(x, 'R', ''), 'P', '')
isNotRP(ch) == ch \notin {"R", "P"}
replaceRP(str) == SelectSeq(str, isNotRP)

\* CAST(x AS INTEGER): the value of the leading digits, 0 when there are none
\* (no card number below has a sign or leading blanks)
RECURSIVE castDigits(_, _)
castDigits(str, acc) ==
    IF str = <<>> \/ ~isDigit(Head(str)) THEN acc
    ELSE castDigits(Tail(str), 10 * acc + digitValue(Head(str)))

castInteger(str) == castDigits(str, 0)

\* x GLOB '[0-9]*'
globDigit(str) == str # <<>> /\ isDigit(str[1])

\* the two expressions of ORDER BY
orderKey(cardNumber) ==
    <<IF globDigit(cardNumber) THEN 0 ELSE 1, castInteger(replaceRP(cardNumber))>>

keyLessEq(k, l) == k[1] < l[1] \/ (k[1] = l[1] /\ k[2] <= l[2])

\* the rows of the grouped query for one set: one per card with a variant
\* appearing in it
cardsInSetRows(E, setId) ==
    LET inSet == {a \in E.appearances :
                     /\ a.set_id = setId
                     /\ \E x \in E.sets : x.id = setId
                     /\ \E v \in E.variants : v.id = a.variant_id /\
                           \E c \in E.cards : c.id = v.card_id}
        cardOf(a) == (CHOOSE v \in E.variants : v.id = a.variant_id).card_id
        of(c) == {a \in inSet : cardOf(a) = c}
    IN  {[card_id |-> c,
          card_number |-> textMin({a.card_number : a \in of(c)}),
          rarity |-> rarityMin({a.rarity : a \in of(c)})] :
            c \in {cardOf(a) : a \in inSet}}

\* the sequences ORDER BY may return: rows with equal keys come in any order
orderedRows(rows) ==
    {q \in [1..Cardinality(rows) -> rows] :
        /\ \A i, j \in DOMAIN q : i # j => q[i] # q[j]
        /\ \A i, j \in DOMAIN q :
              i < j => keyLessEq(orderKey(q[i].card_number), orderKey(q[j].card_number))}

\* the variants of a card that appear in the set, with their quantities
variantsInSet(E, C, cardId, setId) ==
    {[id |-> v.id,
      quantity |-> IF v.id \in DOMAIN C /\ C[v.id] # 0 THEN C[v.id] ELSE 0] :
        v \in {x \in E.variants :
                  /\ x.card_id = cardId
                  /\ \E a \in E.appearances :
                        a.variant_id = x.id /\ a.set_id = setId}}

cardsWithVariants(E, C, setId, q) ==
    [i \in DOMAIN q |->
        [id |-> q[i].card_id, cardNumber |-> q[i].card_number,
         rarity |-> q[i].rarity,
         variants |-> variantsInSet(E, C, q[i].card_id, setId)]]

\* getCardsInSet up to its first await: the guards, then the grouped query
GetCardsCall(t, setId) ==
    /\ pc[t] = "idle"
    /\ calls < MaxCalls
    /\ calls' = calls + 1
    /\ IF encyclopediaDb = "null" \/ collectionDb = "null"
       THEN /\ ret' = [ret EXCEPT ![t] = ErrorRet("cards", setId)]
            /\ UNCHANGED <<pc, arg>>
       ELSE /\ pc' = [pc EXCEPT ![t] = "cards_query"]
            /\ arg' = [arg EXCEPT ![t] = [NoArg EXCEPT !.setId = setId]]
            /\ ret' = [ret EXCEPT ![t] = NoRet]
    /\ UNCHANGED <<dbVars, initVars, storeVars, statsVars, seedVars, now, calc, hist>>

\* one of the queries throws: the error is rethrown
GetCardsFail(t) ==
    /\ pc[t] = "cards_query"
    /\ pc' = [pc EXCEPT ![t] = "idle"]
    /\ ret' = [ret EXCEPT ![t] = ErrorRet("cards", arg[t].setId)]
    /\ UNCHANGED <<dbVars, initVars, storeVars, statsVars, seedVars, now, arg,
                   calc, hist, calls>>

\* the grouped query returns its rows in order; the variants and quantities
\* of each card are read; the cards are returned in the order of the rows
GetCardsResolve(t) ==
    /\ pc[t] = "cards_query"
    /\ {"sets", "cards", "variants", "appearances"} \cap enc.missing = {}
    /\ \E q \in orderedRows(cardsInSetRows(enc, arg[t].setId)) :
          ret' = [ret EXCEPT ![t] =
                     [op |-> "cards", status |-> "ok", setId |-> arg[t].setId,
                      data |-> cardsWithVariants(enc, coll, arg[t].setId, q),
                      missed |-> {}, source |-> "none"]]
    /\ pc' = [pc EXCEPT ![t] = "idle"]
    /\ UNCHANGED <<dbVars, initVars, storeVars, statsVars, seedVars, now, arg,
                   calc, hist, calls>>

\* set s1: a card with the numbers 2 and 10, numeric and promo numbers with
\* one and two digits, and two promo numbers of the same value; set s2: two
\* numeric numbers and one without digits
CardsCatalogue ==
    [EmptyStore EXCEPT
        !.sets = {[id |-> "s1", name |-> "Premiere"], [id |-> "s2", name |-> "Hoth"]},
        !.cards = {[id |-> c, name |-> c] : c \in {"c1", "c2", "c3", "c4", "c5"}},
        !.variants = {[id |-> "v1", card_id |-> "c1", pricing_id |-> NULL],
                      [id |-> "v2", card_id |-> "c2", pricing_id |-> NULL],
                      [id |-> "v3", card_id |-> "c3", pricing_id |-> NULL],
                      [id |-> "v4", card_id |-> "c4", pricing_id |-> NULL],
                      [id |-> "v5", card_id |-> "c5", pricing_id |-> NULL],
                      [id |-> "v6", card_id |-> "c1", pricing_id |-> NULL]},
        !.appearances =
            {[set_id |-> "s1", variant_id |-> "v1", card_number |-> <<"2">>,
              rarity |-> R("R", "1")],
             [set_id |-> "s1", variant_id |-> "v6", card_number |-> <<"1", "0">>,
              rarity |-> R("C", "1")],
             [set_id |-> "s1", variant_id |-> "v2", card_number |-> <<"3">>,
              rarity |-> R("u", "2")],
             [set_id |-> "s1", variant_id |-> "v3", card_number |-> <<"P", "2">>,
              rarity |-> NoRarity],
             [set_id |-> "s1", variant_id |-> "v4", card_number |-> <<"P", "1", "0">>,
              rarity |-> NoRarity],
             [set_id |-> "s1", variant_id |-> "v5", card_number |-> <<"R", "2">>,
              rarity |-> NoRarity],
             [set_id |-> "s2", variant_id |-> "v2", card_number |-> <<"1", "2">>,
              rarity |-> R("R", "1")],
             [set_id |-> "s2", variant_id |-> "v3", card_number |-> <<"7">>,
              rarity |-> R("C", "2")],
             [set_id |-> "s2", variant_id |-> "v4", card_number |-> <<"A">>,
              rarity |-> NoRarity]}]

CardsVariants == {"v1", "v3", "v6"}

InitCards ==
    /\ Ready
    /\ Quiet
    /\ dataset = TargetDataset
    /\ enc = writeVersion(CardsCatalogue, DB_VERSION)
    /\ txn = <<>>
    /\ coll \in UNION {[V -> 1..MaxQty] : V \in SUBSET CardsVariants}

NextCards ==
    \/ \E setId \in SetIds : GetCardsCall("t1", setId)
    \/ GetCardsFail("t1")
    \/ GetCardsResolve("t1")

SpecCards == InitCards /\ [][NextCards]_vars

\* caller t holds the cards of a set
Listed(t) == pc[t] = "idle" /\ ret[t].op = "cards" /\ ret[t].status = "ok"

C24_StartsNumeric(n) == n # <<>> /\ n[1] \in {Digits[i] : i \in 1..Len(Digits)}

\* the integer a card number stands for: its digits up to the first
\* character that is no digit, the letters R and P left out
RECURSIVE C24_Value(_, _)
C24_Value(n, acc) ==
    IF n = <<>> THEN acc
    ELSE IF Head(n) \in {"R", "P"} THEN C24_Value(Tail(n), acc)
    ELSE IF ~C24_StartsNumeric(n) THEN acc
    ELSE C24_Value(Tail(n), 10 * acc + CharRank(Head(n)) - 1)

\* the claim as stated: numeric card numbers first, in ascending numeric
\* order; the others after them, in the order of text comparison
C24_Sorted ==
    \A t \in Tasks :
        Listed(t) =>
            \A i, j \in DOMAIN ret[t].data :
                i < j =>
                    LET a == ret[t].data[i].cardNumber
                        b == ret[t].data[j].cardNumber
                    IN  /\ C24_StartsNumeric(b) => C24_StartsNumeric(a)
                        /\ (C24_StartsNumeric(a) /\ C24_StartsNumeric(b)) =>
                              C24_Value(a, 0) <= C24_Value(b, 0)
                        /\ (~C24_StartsNumeric(a) /\ ~C24_StartsNumeric(b)) =>
                              (a = b \/ textLess(a, b))

\* C24 (card ordering), as the code has it: the cards whose lowest card
\* number (the least under text comparison) starts with a digit come first;
\* within the numeric and within the other cards the order is ascending in
\* the integer of the lowest card number with its letters R and P left out.
C24_SortedByValue ==
    \A t \in Tasks :
        Listed(t) =>
            \A i, j \in DOMAIN ret[t].data :
                i < j =>
                    LET a == ret[t].data[i].cardNumber
                        b == ret[t].data[j].cardNumber
                    IN  /\ C24_StartsNumeric(b) => C24_StartsNumeric(a)
                        /\ (C24_StartsNumeric(a) <=> C24_StartsNumeric(b)) =>
                              C24_Value(a, 0) <= C24_Value(b, 0)

\* reached: the cards of set s1 were returned, P2 among them before P10
C24_Witness ==
    /\ Listed("t1") /\ ret["t1"].setId = "s1"
    /\ \E i, j \in DOMAIN ret["t1"].data :
          /\ i < j
          /\ ret["t1"].data[i].cardNumber = <<"P", "2">>
          /\ ret["t1"].data[j].cardNumber = <<"P", "1", "0">>

----------------------------------------------------------------------------
(* The insert statements of the transaction.                               *)

\* the statement of caller t that awaits at step can return
CanReturn(t, step) ==
    CASE step = "seed_sets" -> ENABLED SeedInsertSets(t)
      [] step = "seed_cards" -> ENABLED SeedInsertCards(t)
      [] step = "seed_variants" -> ENABLED SeedInsertVariants(t)
      [] step = "seed_appearances" -> ENABLED SeedInsertAppearances(t)
      [] step = "seed_pricing" -> ENABLED SeedInsertPricing(t)

TableOf(step) ==
    CASE step = "seed_sets" -> "sets"
      [] step = "seed_cards" -> "cards"
      [] step = "seed_variants" -> "variants"
      [] step = "seed_appearances" -> "appearances"
      [] step = "seed_pricing" -> "pricing"

BatchOf(step) ==
    CASE step = "seed_sets" -> dataset.sets
      [] step = "seed_cards" -> dataset.cards
      [] step = "seed_variants" -> dataset.variants
      [] step = "seed_appearances" -> dataset.appearances
      [] step = "seed_pricing" -> dataset.pricing

\* C25 (upsert semantics in every insert step): whenever the insert of the
\* sets, cards, variants, appearances or pricing rows is awaited with the
\* store open, the table present and a batch that is not empty, the
\* statement can return, whatever rows the table holds and also when a key
\* occurs twice in the batch.
C25_UpsertEveryStep ==
    \A t \in Tasks :
        \A step \in {"seed_sets", "seed_cards", "seed_variants",
                     "seed_appearances", "seed_pricing"} :
            ( /\ pc[t] = step
              /\ encyclopediaDb = "open"
              /\ TableOf(step) \notin enc.missing
              /\ ~emptyBatch(BatchOf(step)) )
            => CanReturn(t, step)

\* ---------------------------------------------------------------------
\* Invalidation against the reads of the statistics
\* ---------------------------------------------------------------------

\* the sets whose entries updateVariantQuantity(variantId, .) invalidates:
\* the variant lookup, then the sets of its card
invalidatedSets(E, variantId) ==
    UNION {setsOfCard(E, v.card_id) : v \in {x \in E.variants : x.id = variantId}}

\* the sets whose calculation reads the quantity of variantId: the variant
\* is among the rows of query 1, so query 2 asks for its collection row
readingSets(E, variantId) ==
    {s \in SetIds : \E cv \in cardVariantsQuery(E, s) : cv.variant_id = variantId}

\* every call has settled
NoCallRunning == \A t \in Tasks : pc[t] = "idle"

\* C26 (invalidation covers exactly the dependent keys): the sets an update
\* of a variant invalidates are the sets whose statistics read the
\* variant's quantity, and between calls of one caller every cached entry
\* equals what a calculation from storage would give now.
C26_CacheMatchesStorage ==
    /\ \A v \in VariantArgs : invalidatedSets(enc, v) = readingSets(enc, v)
    /\ NoCallRunning =>
           \A s \in DOMAIN cache : cache[s].data = FreshStats(s)

\* ---------------------------------------------------------------------
\* The screen's quantity change: the old quantity kept for the rollback
\* ---------------------------------------------------------------------

\* handleVariantQuantityChange: oldQuantity is read from the screen's state
\* (the stored quantity, 0 without a row), then updateVariantQuantity is
\* awaited
handleVariantQuantityChange(t, variantId, newQuantity) ==
    UpdateEntry(t, variantId, newQuantity, StoredQuantity(coll, variantId))

NextUpdate ==
    \/ \E v \in VariantArgs, q \in Quantities : handleVariantQuantityChange("t1", v, q)
    \/ UpdateWrite("t1")
    \/ UpdateVariant("t1")
    \/ UpdateSets("t1")
    \/ UpdateFail("t1")

SpecUpdate == Init /\ [][NextUpdate]_vars

\* C27 (failed mutation leaves the ledger unchanged): when a call of
\* updateVariantQuantity rejects, the quantity stored for its variant is
\* the one stored when the call was made, the one the caller rolls its
\* optimistic state back to.
C27_Step ==
    \A t \in Tasks :
        ( /\ pc[t] \in UpdateSteps
          /\ pc'[t] = "idle"
          /\ ret'[t] = UpdateRet("error") )
        => StoredQuantity(coll', arg[t].variantId) = arg[t].oldQuantity

C27_FailedUpdateUnchanged == [][C27_Step]_vars

\* ---------------------------------------------------------------------
\* Overlapping calls of seedEncyclopedia: both stores are open, the
\* encyclopedia is new or holds the catalogue of the previous version, and
\* two tasks call seedEncyclopedia; their statements interleave at every
\* await on the one connection. No storage call fails by itself: a
\* statement fails only for what the other call did.
\* ---------------------------------------------------------------------

\* the table a statement reads or writes
tableAt(step) ==
    CASE step = "seed_sets" -> "sets"
      [] step = "seed_cards" -> "cards"
      [] step = "seed_set_cards" -> "set_cards"
      [] step = "seed_variants" -> "variants"
      [] step = "seed_appearances" -> "appearances"
      [] step = "seed_pricing" -> "pricing"
      [] step = "seed_map_read" -> "pricing"
      [] step = "seed_map_update" -> "variants"
      [] step = "seed_valid" -> "variants"
      [] OTHER -> "_metadata"

\* BEGIN TRANSACTION while the connection has a transaction open: cannot
\* start a transaction within a transaction; the outer catch rethrows
SeedBeginNested(t) ==
    /\ pc[t] = "seed_begin"
    /\ txn # <<>>
    /\ SeedFail(t)

\* INSERT INTO sets finds a row of its batch present: the constraint fails
\* and the catch block issues ROLLBACK
SeedSetsConflict(t) ==
    /\ pc[t] = "seed_sets"
    /\ "sets" \notin enc.missing
    /\ HasConflict(enc.sets, dataset.sets, IdKey)
    /\ SeedInsertFail(t)

\* a statement of the transaction names a table that is dropped
SeedNoTable(t) ==
    /\ pc[t] \in InsertSteps
    /\ tableAt(pc[t]) \in enc.missing
    /\ SeedInsertFail(t)

\* SELECT id FROM variants while the table is dropped: the outer catch
\* rethrows
SeedValidNoTable(t) ==
    /\ pc[t] = "seed_valid"
    /\ tableAt(pc[t]) \in enc.missing
    /\ SeedFail(t)

InitOverlap ==
    /\ Ready
    /\ Quiet
    /\ dataset = TargetDataset
    /\ enc \in {EmptyStore, writeVersion(Catalogue(OldDataset), DB_VERSION - 1)}
    /\ txn = <<>>
    /\ coll = MapSet(EmptyMap, "v4", 1)

NextOverlap ==
    \/ \E t \in Tasks : SeedCall(t)
    \/ \E t \in Tasks : SeedStatus(t)
    \/ \E t \in Tasks : SeedDrop(t)
    \/ \E t \in Tasks : SeedSchema(t)
    \/ \E t \in Tasks : SeedDelete(t)
    \/ \E t \in Tasks : SeedBegin(t)
    \/ \E t \in Tasks : SeedBeginNested(t)
    \/ \E t \in Tasks : SeedInsertSets(t)
    \/ \E t \in Tasks : SeedSetsConflict(t)
    \/ \E t \in Tasks : SeedInsertCards(t)
    \/ \E t \in Tasks : SeedInsertSetCards(t)
    \/ \E t \in Tasks : SeedInsertVariants(t)
    \/ \E t \in Tasks : SeedInsertAppearances(t)
    \/ \E t \in Tasks : SeedInsertPricing(t)
    \/ \E t \in Tasks : SeedMapRead(t)
    \/ \E t \in Tasks : SeedMapUpdate(t)
    \/ \E t \in Tasks : SeedNoTable(t)
    \/ \E t \in Tasks : SeedCommit(t)
    \/ \E t \in Tasks : SeedRollback(t)
    \/ \E t \in Tasks : SeedMarker(t)
    \/ \E t \in Tasks : SeedValid(t)
    \/ \E t \in Tasks : SeedValidNoTable(t)
    \/ \E t \in Tasks : SeedCollection(t)
    \/ \E t \in Tasks : SeedPurge(t)

SpecOverlap == InitOverlap /\ [][NextOverlap]_vars

\* a call of t that found the store behind DB_VERSION has settled
RebuildSettled(t) ==
    pc[t] = "idle" /\ seedRet[t].status \in {"first-time", "migration", "error"}

C28_Outcome ==
    ( /\ \A t \in Tasks : RebuildSettled(t)
      /\ HasVersion(enc) /\ StoredVersion(enc) = DB_VERSION )
    => ExactlyCatalogue(enc, dataset)

C28_Undisturbed ==
    \A t \in Tasks :
        (pc[t] \in InsertSteps /\ pc'[t] = pc[t]) => enc' = enc

\* C28 (overlapping reconciliations do not corrupt the store): while the
\* transaction of one call is open no statement of the other call changes
\* the tables, and once two overlapping calls that both found the store
\* behind DB_VERSION have settled, a store whose marker is DB_VERSION holds
\* exactly the rows of the dataset.
C28_OverlapSafe == [](C28_Outcome) /\ [][C28_Undisturbed]_vars

\* ---------------------------------------------------------------------
\* Close, then open again
\* ---------------------------------------------------------------------

\* closeDatabases has completed and nothing is running: both handles are
\* null
Closed ==
    /\ encyclopediaDb = "null" /\ collectionDb = "null"
    /\ ~InitRunning
    /\ \A t \in Tasks : pc[t] = "idle"
    /\ \E t \in Tasks : ret[t] = CloseRet("ok")

C29_Flags ==
    isInitialized => encyclopediaDb # "null" /\ collectionDb # "null"

C29_Step ==
    (Closed /\ hist'.initCalls > hist.initCalls) =>
        /\ hist'.opens = hist.opens + 1
        /\ initStep' = "open_enc"

\* C29 (close then re-open): isInitialized is never true while a store
\* handle is null, and a call of initializeDatabases made after
\* closeDatabases has completed starts a new open sequence.
C29_CloseReopen == [](C29_Flags) /\ [][C29_Step]_vars

\* ---------------------------------------------------------------------
\* Calls made while the open sequence runs: one task calls
\* initializeDatabases at the start of the process, another one calls
\* getAllSets, updateVariantQuantity and seedEncyclopedia at any moment.
\* ---------------------------------------------------------------------

\* getAllSets up to its await: the handle guard, then the query is issued
GetAllSetsCall(t) ==
    /\ pc[t] = "idle"
    /\ calls < MaxCalls
    /\ calls' = calls + 1
    /\ IF encyclopediaDb = "null"
       THEN /\ ret' = [ret EXCEPT ![t] = ErrorRet("sets", NULL)]
            /\ UNCHANGED pc
       ELSE /\ pc' = [pc EXCEPT ![t] = "sets_query"]
            /\ ret' = [ret EXCEPT ![t] = NoRet]
    /\ UNCHANGED <<dbVars, initVars, storeVars, statsVars, seedVars, now, arg,
                   calc, hist>>

\* SELECT ... FROM sets returns (the rows stand for the ordered list)
GetAllSetsResolve(t) ==
    /\ pc[t] = "sets_query"
    /\ encyclopediaDb = "open"
    /\ "sets" \notin enc.missing
    /\ ret' = [ret EXCEPT ![t] = [op |-> "sets", status |-> "ok", setId |-> NULL,
                                  data |-> <<enc.sets>>, missed |-> {},
                                  source |-> "none"]]
    /\ pc' = [pc EXCEPT ![t] = "idle"]
    /\ UNCHANGED <<dbVars, initVars, storeVars, statsVars, seedVars, now, arg,
                   calc, hist, calls>>

\* the query throws: the catch block rethrows
GetAllSetsFail(t) ==
    /\ pc[t] = "sets_query"
    /\ ret' = [ret EXCEPT ![t] = ErrorRet("sets", NULL)]
    /\ pc' = [pc EXCEPT ![t] = "idle"]
    /\ UNCHANGED <<dbVars, initVars, storeVars, statsVars, seedVars, now, arg,
                   calc, hist, calls>>

NextHalfOpen ==
    \/ InitCall("t1")
    \/ InitOpenedEnc
    \/ InitSchemaEnc
    \/ InitWalEnc
    \/ InitOpenedColl
    \/ InitSchemaColl
    \/ InitWalColl
    \/ InitDone
    \/ InitFail
    \/ GetAllSetsCall("t2")
    \/ GetAllSetsResolve("t2")
    \/ GetAllSetsFail("t2")
    \/ \E v \in SeedVariantArgs, q \in SeedQuantities : UpdateCall("t2", v, q)
    \/ UpdateWrite("t2")
    \/ UpdateVariant("t2")
    \/ UpdateSets("t2")
    \/ UpdateFail("t2")
    \/ SeedCall("t2")
    \/ SeedStatus("t2")
    \/ SeedStatusFail("t2")
    \/ SeedDelete("t2")
    \/ SeedDeleteFail("t2")
    \/ SeedBegin("t2")
    \/ SeedFail("t2")
    \/ SeedInsertSets("t2")
    \/ SeedInsertCards("t2")
    \/ SeedInsertSetCards("t2")
    \/ SeedInsertVariants("t2")
    \/ SeedInsertAppearances("t2")
    \/ SeedInsertPricing("t2")
    \/ SeedMapRead("t2")
    \/ SeedMapUpdate("t2")
    \/ SeedCommit("t2")
    \/ SeedInsertFail("t2")
    \/ SeedRollback("t2")
    \/ SeedMarker("t2")

SpecHalfOpen == InitStart /\ [][NextHalfOpen]_vars

\* the call of t has passed its guard and a storage call of it is issued
ReachedStorage(t) == pc[t] \in SeedSteps \cup UpdateSteps \cup {"sets_query"}

\* C30 (no half-open store is observable): as long as isInitialized is
\* false no call of another task has passed its guard and reached storage,
\* and a store handle is non-null only when both stores are open and both
\* schemas are created.
C30_NoHalfOpen ==
    /\ \A t \in Tasks : ReachedStorage(t) => isInitialized
    /\ (encyclopediaDb # "null" \/ collectionDb # "null") =>
           /\ encyclopediaDb = "open" /\ collectionDb = "open"
           /\ initStep \in {"wal_coll", "backup_info", "done"}

====
